---- MODULE Spec2Model ----
(***************************************************************************)
(* Weather "Perceived Feel Index" application (script.js).                 *)
(*                                                                         *)
(* The weather-derivation pipeline of the application: calculatePFI,       *)
(* detectHazards, determinePrecipitationType / getPrecipitationDisplay,    *)
(* generateComparisonData, generateWeekPFI and generateComparisons, and    *)
(* the part of initWeatherApp that drives them after the weather response  *)
(* has arrived.                                                            *)
(*                                                                         *)
(* Units.  Temperatures are integers in tenths of a degree Celsius (the    *)
(* precision of the weather service), PFI values and PFI differences are   *)
(* integers in hundredths of a degree, so that                             *)
(*   (min + max) / 2 + 0.02 * (50 - cloud)                                 *)
(* is exact: 5 * (min10 + max10) + 2 * (50 - cloud) hundredths.            *)
(* Percentages, millimetres and km/h are whole numbers.  Calendar dates    *)
(* are day numbers; day 0 is a Sunday.  JavaScript arrays are 0-based, the *)
(* sequences here are 1-based: JS index i is element i + 1.                *)
(***************************************************************************)
EXTENDS Integers, Sequences, FiniteSets, TLC

\* ------------------------------------------------------------------------
\* Bounds of the model
\* ------------------------------------------------------------------------

\* generateComparisons requires this many daily entries (script.js:1071).
RequiredDays == 7

\* The windows fetched have RequiredDays - 1 .. RequiredDays + ExtraDays entries
\* (the request asks for past_days=1 and forecast_days=7, i.e. 8 entries).
ExtraDays == 1

\* Date of the first (oldest) entry of every fetched window.
FirstDate == 3

\* The wall clock starts at the window's "today" and may run ahead of it by
\* at most this many days.
MaxClockSkew == 1

\* Probabilities are percentages 0 .. MaxProb.
MaxProb == 100

\* PFI differences passed to generateComparisonData directly range over
\* -MaxDiff .. MaxDiff hundredths of a degree.
MaxDiff == 1000

\* ------------------------------------------------------------------------
\* JavaScript values
\* ------------------------------------------------------------------------

\* A JS number, and JS null / undefined, as values of one shape.
Num(n) == [isNull |-> FALSE, value |-> n]
JsNull == [isNull |-> TRUE, value |-> 0]

\* `v || 0` for a number-or-null v (script.js:1032): null, undefined and 0
\* all give 0.
OrZero(v) == IF v.isNull THEN 0 ELSE v.value

\* `v >= n` for a number-or-null v: null converts to 0.
GreaterOrEqual(v, n) == OrZero(v) >= n

\* Math.round: the nearest integer, halves towards +infinity.  The argument is
\* the rational num / den with den > 0.
MathRound(num, den) == (2 * num + den) \div (2 * den)

\* Math.abs
MathAbs(n) == IF n < 0 THEN -n ELSE n

\* Array.prototype.slice(1)
Slice1(s) == IF Len(s) = 0 THEN <<>> ELSE SubSeq(s, 2, Len(s))

\* ------------------------------------------------------------------------
\* Dates and weekday labels
\* ------------------------------------------------------------------------

WeekdayShort == <<"Sun", "Mon", "Tue", "Wed", "Thu", "Fri", "Sat">>

\* The short weekday name of a calendar day number.
WeekdayOf(day) == WeekdayShort[(day % 7) + 1]

\* new Date("YYYY-MM-DD").toLocaleDateString('en-US', {weekday: 'short'})
\* (script.js:1334-1335).  A date-only string is parsed as midnight UTC; the
\* weekday is taken in the browser's time zone, utcOffset hours from UTC.
apiDateDayName(date, utcOffset) == WeekdayOf((24 * date + utcOffset) \div 24)

\* The fallback label (script.js:1340-1342): the local wall-clock day plus i.
fallbackDayName(clock, i) == WeekdayOf(clock + i)

\* ------------------------------------------------------------------------
\* Precipitation resolver (script.js:619-658)
\* ------------------------------------------------------------------------

NullPrecipitation == [type |-> "null", probability |-> 0]
HiddenDisplay == [icon |-> "", label |-> "", show |-> FALSE]

determinePrecipitationType_tieRain(rainProb, snowProb) ==
  IF rainProb <= 30 /\ snowProb <= 30 THEN NullPrecipitation
  ELSE IF rainProb >= snowProb
       THEN [type |-> "rain", probability |-> rainProb]
       ELSE [type |-> "snow", probability |-> snowProb]

determinePrecipitationType(rainProb, snowProb) ==
  IF rainProb <= 30 /\ snowProb <= 30 THEN NullPrecipitation
  ELSE IF rainProb > snowProb
       THEN [type |-> "rain", probability |-> rainProb]
       ELSE [type |-> "snow", probability |-> snowProb]

getPrecipitationDisplay_expectedAt60(precipitationData) ==
  IF precipitationData = NullPrecipitation THEN HiddenDisplay
  ELSE IF precipitationData.type = "rain"
       THEN [icon |-> "rainy",
             label |-> IF precipitationData.probability >= 60
                       THEN "Rain expected" ELSE "Likely to rain",
             show |-> TRUE]
       ELSE [icon |-> "ac_unit",
             label |-> IF precipitationData.probability >= 60
                       THEN "Snow expected" ELSE "Likely to snow",
             show |-> TRUE]

getPrecipitationDisplay(precipitationData) ==
  IF precipitationData = NullPrecipitation THEN HiddenDisplay
  ELSE IF precipitationData.type = "rain"
       THEN [icon |-> "rainy",
             label |-> IF precipitationData.probability > 60
                       THEN "Rain expected" ELSE "Likely to rain",
             show |-> TRUE]
       ELSE [icon |-> "ac_unit",
             label |-> IF precipitationData.probability > 60
                       THEN "Snow expected" ELSE "Likely to snow",
             show |-> TRUE]

\* ------------------------------------------------------------------------
\* Hazard detector (script.js:661-753)
\* ------------------------------------------------------------------------

\* One iteration of the loop of detectHazards: the hazard of one day, or
\* "null".  Temperatures are in tenths of a degree.
detectedHazard_heatFirst(day) ==
  LET tempMax == day.apparent_temperature_max
      tempMin == day.apparent_temperature_min
      humidity == day.relative_humidity_2m_mean
      wind == day.windspeed_10m_max
      precipitation == day.precipitation_sum
      precipProb == day.precipitation_probability_max
  IN  IF tempMax >= 380 THEN "Extreme Heat"
      ELSE IF tempMax >= 320 /\ humidity <= 30 /\ wind >= 25 THEN "Fire Risk"
      ELSE IF precipitation >= 30 /\ GreaterOrEqual(precipProb, 70)
           THEN "Heavy Rain"
      ELSE IF precipitation > 0 /\ tempMin <= 0 THEN "Snow/Ice"
      ELSE IF tempMin <= 0 THEN "Extreme Cold"
      ELSE IF wind >= 50 THEN "Strong Winds"
      ELSE "null"

detectedHazard(day) ==
  LET tempMax == day.apparent_temperature_max
      tempMin == day.apparent_temperature_min
      humidity == day.relative_humidity_2m_mean
      wind == day.windspeed_10m_max
      precipitation == day.precipitation_sum
      precipProb == day.precipitation_probability_max
  IN  IF tempMax >= 320 /\ humidity <= 30 /\ wind >= 25 THEN "Fire Risk"
      ELSE IF tempMax >= 380 THEN "Extreme Heat"
      ELSE IF precipitation >= 30 /\ GreaterOrEqual(precipProb, 70)
           THEN "Heavy Rain"
      ELSE IF precipitation > 0 /\ tempMin <= 0 THEN "Snow/Ice"
      ELSE IF tempMin <= 0 THEN "Extreme Cold"
      ELSE IF wind >= 50 THEN "Strong Winds"
      ELSE "null"

\* hazards[i] for every day of weatherData.daily, in order.
detectHazards(weatherData) ==
  [i \in 1..Len(weatherData.daily) |-> detectedHazard(weatherData.daily[i])]

\* getHazardDisplay; `hazardType` is a hazard name, "null", or "undefined"
\* (an element read past the end of the hazards array).
getHazardDisplay(hazardType) ==
  CASE hazardType = "Fire Risk" ->
         [icon |-> "mode_heat", label |-> "Fire Risk", show |-> TRUE,
          colorClass |-> "hazard-hot"]
    [] hazardType = "Extreme Heat" ->
         [icon |-> "heat", label |-> "Extreme Heat", show |-> TRUE,
          colorClass |-> "hazard-hot"]
    [] hazardType = "Heavy Rain" ->
         [icon |-> "flood", label |-> "Heavy Rain", show |-> TRUE,
          colorClass |-> "hazard-cold"]
    [] hazardType = "Snow/Ice" ->
         [icon |-> "severe_cold", label |-> "Snow/Ice", show |-> TRUE,
          colorClass |-> "hazard-cold"]
    [] hazardType = "Extreme Cold" ->
         [icon |-> "severe_cold", label |-> "Extreme Cold", show |-> TRUE,
          colorClass |-> "hazard-cold"]
    [] hazardType = "Strong Winds" ->
         [icon |-> "air", label |-> "Strong Winds", show |-> TRUE,
          colorClass |-> "hazard-wind"]
    [] OTHER -> HiddenDisplay

\* ------------------------------------------------------------------------
\* PFI calculator (script.js:1017-1065)
\* ------------------------------------------------------------------------

\* The body of the loop of calculatePFI for JS index i - 1: the entry pushed
\* for day i of `daily`.  pfi and avgApparentTemp are in hundredths.
pfiEntry_firstDayCloud(daily, i) ==
  LET apparentTempMin == daily[i].apparent_temperature_min
      apparentTempMax == daily[i].apparent_temperature_max
      cloudcover == daily[1].cloudcover_mean
      precipitationProb == OrZero(daily[i].precipitation_probability_max)
      avgApparentTemp == 5 * (apparentTempMin + apparentTempMax)
      cloudAdj == 2 * (50 - cloudcover)
      pfi == avgApparentTemp + cloudAdj
      avgTemp == 5 * (apparentTempMin + apparentTempMax)
  IN  [date |-> daily[i].time,
       pfi |-> pfi,
       avgApparentTemp |-> avgApparentTemp,
       cloudcover |-> cloudcover,
       precipitation |->
         [rain |-> IF avgTemp > 0 THEN precipitationProb ELSE 0,
          snow |-> IF avgTemp <= 0 THEN precipitationProb ELSE 0]]

pfiEntry_rainAtZero(daily, i) ==
  LET apparentTempMin == daily[i].apparent_temperature_min
      apparentTempMax == daily[i].apparent_temperature_max
      cloudcover == daily[i].cloudcover_mean
      precipitationProb == OrZero(daily[i].precipitation_probability_max)
      avgApparentTemp == 5 * (apparentTempMin + apparentTempMax)
      cloudAdj == 2 * (50 - cloudcover)
      pfi == avgApparentTemp + cloudAdj
      avgTemp == 5 * (apparentTempMin + apparentTempMax)
  IN  [date |-> daily[i].time,
       pfi |-> pfi,
       avgApparentTemp |-> avgApparentTemp,
       cloudcover |-> cloudcover,
       precipitation |->
         [rain |-> IF avgTemp >= 0 THEN precipitationProb ELSE 0,
          snow |-> IF avgTemp <= 0 THEN precipitationProb ELSE 0]]

pfiEntry(daily, i) ==
  LET apparentTempMin == daily[i].apparent_temperature_min
      apparentTempMax == daily[i].apparent_temperature_max
      cloudcover == daily[i].cloudcover_mean
      precipitationProb == OrZero(daily[i].precipitation_probability_max)
      avgApparentTemp == 5 * (apparentTempMin + apparentTempMax)
      cloudAdj == 2 * (50 - cloudcover)
      pfi == avgApparentTemp + cloudAdj
      avgTemp == 5 * (apparentTempMin + apparentTempMax)
  IN  [date |-> daily[i].time,
       pfi |-> pfi,
       avgApparentTemp |-> avgApparentTemp,
       cloudcover |-> cloudcover,
       precipitation |->
         [rain |-> IF avgTemp > 0 THEN precipitationProb ELSE 0,
          snow |-> IF avgTemp <= 0 THEN precipitationProb ELSE 0]]

calculatePFI(weatherData) ==
  [i \in 1..Len(weatherData.daily) |-> pfiEntry(weatherData.daily, i)]

\* ------------------------------------------------------------------------
\* Trend classification (script.js:1165-1216)
\* ------------------------------------------------------------------------

\* The threshold chain of generateComparisonData (script.js:1173-1199): the
\* arrow and the comparison for a percentage.
feelChange_inclusive(percentage) ==
  IF percentage > 35 THEN [arrow |-> "up", comparison |-> "significantly_hotter"]
  ELSE IF percentage > 15
       THEN [arrow |-> "up", comparison |-> "noticeably_hotter"]
  ELSE IF percentage >= 5 THEN [arrow |-> "up", comparison |-> "hotter"]
  ELSE IF percentage < -35
       THEN [arrow |-> "down", comparison |-> "significantly_colder"]
  ELSE IF percentage < -15
       THEN [arrow |-> "down", comparison |-> "noticeably_colder"]
  ELSE IF percentage <= -5 THEN [arrow |-> "down", comparison |-> "colder"]
  ELSE [arrow |-> "-", comparison |-> "same"]

feelChange(percentage) ==
  IF percentage > 35 THEN [arrow |-> "up", comparison |-> "significantly_hotter"]
  ELSE IF percentage > 15
       THEN [arrow |-> "up", comparison |-> "noticeably_hotter"]
  ELSE IF percentage > 5 THEN [arrow |-> "up", comparison |-> "hotter"]
  ELSE IF percentage < -35
       THEN [arrow |-> "down", comparison |-> "significantly_colder"]
  ELSE IF percentage < -15
       THEN [arrow |-> "down", comparison |-> "noticeably_colder"]
  ELSE IF percentage < -5 THEN [arrow |-> "down", comparison |-> "colder"]
  ELSE [arrow |-> "-", comparison |-> "same"]

\* generateComparisonData(difference, dayName); `difference` is in hundredths
\* of a degree, so difference * 5 is the rational 5 * difference / 100.
\* fullDisplay and htmlDisplay are the pieces of the string: the arrow, the
\* separator and the percentage shown (null when the arrow stands alone).
generateComparisonData_above5(difference, dayName) ==
  LET percentage == MathRound(5 * difference, 100)
      arrow == feelChange(percentage).arrow
      comparison == feelChange(percentage).comparison
  IN  [arrow |-> arrow,
       percentage |-> MathAbs(percentage),
       comparison |-> comparison,
       fullDisplay |->
         IF MathAbs(percentage) > 5
         THEN [arrow |-> arrow, sep |-> " ", percent |-> Num(MathAbs(percentage))]
         ELSE [arrow |-> arrow, sep |-> "", percent |-> JsNull],
       htmlDisplay |->
         IF MathAbs(percentage) > 5
         THEN [arrow |-> arrow, sep |-> "<br>",
               percent |-> Num(MathAbs(percentage))]
         ELSE [arrow |-> arrow, sep |-> "", percent |-> JsNull]]

generateComparisonData(difference, dayName) ==
  LET percentage == MathRound(5 * difference, 100)
      arrow == feelChange(percentage).arrow
      comparison == feelChange(percentage).comparison
  IN  [arrow |-> arrow,
       percentage |-> MathAbs(percentage),
       comparison |-> comparison,
       fullDisplay |->
         IF MathAbs(percentage) >= 5
         THEN [arrow |-> arrow, sep |-> " ", percent |-> Num(MathAbs(percentage))]
         ELSE [arrow |-> arrow, sep |-> "", percent |-> JsNull],
       htmlDisplay |->
         IF MathAbs(percentage) >= 5
         THEN [arrow |-> arrow, sep |-> "<br>",
               percent |-> Num(MathAbs(percentage))]
         ELSE [arrow |-> arrow, sep |-> "", percent |-> JsNull]]

\* The text displayResults shows for todayComparison.comparison
\* (script.js:1388-1405).
displayText(comparisonText) ==
  CASE comparisonText = "significantly_colder" ->
         "Significantly colder than yesterday"
    [] comparisonText = "noticeably_colder" -> "Noticeably colder than yesterday"
    [] comparisonText = "colder" -> "A bit colder than yesterday"
    [] comparisonText = "significantly_hotter" ->
         "Significantly hotter than yesterday"
    [] comparisonText = "noticeably_hotter" -> "Noticeably hotter than yesterday"
    [] comparisonText = "hotter" -> "A bit hotter than yesterday"
    [] OTHER -> "About the same as yesterday"

\* ------------------------------------------------------------------------
\* Comparison aggregator (script.js:1068-1162, 1323-1373)
\* ------------------------------------------------------------------------

\* generateWeekPFI(pfiData); the caller passes pfiData.slice(1).  Both loops
\* run over the JS indices 1..6, i.e. elements 2..7 here; an element past the
\* end is undefined.  `clock` is the wall-clock day of new Date() and
\* `utcOffset` the browser's time zone, both read by the date formatting.
generateWeekPFI_fromToday(pfiData, clock, utcOffset) ==
  [dayNames |->
     [i \in 1..6 |->
        IF i <= Len(pfiData)
        THEN apiDateDayName(pfiData[i].date, utcOffset)
        ELSE fallbackDayName(clock, i)],
   pfiValues |->
     [i \in 1..6 |->
        IF i <= Len(pfiData) THEN Num(pfiData[i].pfi) ELSE JsNull]]

generateWeekPFI(pfiData, clock, utcOffset) ==
  [dayNames |->
     [i \in 1..6 |->
        IF i + 1 <= Len(pfiData)
        THEN apiDateDayName(pfiData[i + 1].date, utcOffset)
        ELSE fallbackDayName(clock, i)],
   pfiValues |->
     [i \in 1..6 |->
        IF i + 1 <= Len(pfiData) THEN Num(pfiData[i + 1].pfi) ELSE JsNull]]

\* The weekPrecipitation loop of generateComparisons (script.js:1096-1125):
\* JS indices 1..6 of slicedData = pfiData.slice(1).
weekPrecipitation(pfiData) ==
  LET slicedData == Slice1(pfiData)
  IN  [i \in 1..6 |->
         IF i + 1 <= Len(slicedData)
         THEN getPrecipitationDisplay(
                determinePrecipitationType(
                  slicedData[i + 1].precipitation.rain,
                  slicedData[i + 1].precipitation.snow))
         ELSE HiddenDisplay]

\* The weekHazards loop of generateComparisons (script.js:1140-1151): JS
\* indices 1..6 of slicedHazards = hazards.slice(1).
weekHazards_unsliced(hazards) ==
  [i \in 1..6 |->
     getHazardDisplay(IF i + 1 <= Len(hazards)
                      THEN hazards[i + 1] ELSE "undefined")]

weekHazards(hazards) ==
  LET slicedHazards == Slice1(hazards)
  IN  [i \in 1..6 |->
         getHazardDisplay(IF i + 1 <= Len(slicedHazards)
                          THEN slicedHazards[i + 1] ELSE "undefined")]

\* The length check of generateComparisons (script.js:1071-1074).
NotEnoughWeatherData_exactly7(pfiData) == Len(pfiData) # RequiredDays

NotEnoughWeatherData(pfiData) == Len(pfiData) < RequiredDays

Throw(message) == [threw |-> TRUE, message |-> message]
Return(value) == [threw |-> FALSE, value |-> value]

\* generateComparisons(pfiData, currentTemp, weatherData): the error it
\* throws or the object it returns.  currentTemp is not used.
generateComparisons(pfiData, currentTemp, weatherData, clock, utcOffset) ==
  IF NotEnoughWeatherData(pfiData) THEN Throw("Not enough weather data")
  ELSE
    LET yesterday == pfiData[1]
        today == pfiData[2]
        todayVsYesterdayDiff == today.pfi - yesterday.pfi
        hazards == detectHazards(weatherData)
    IN  Return(
          [todayPFI |-> today.pfi,
           todayComparison |->
             generateComparisonData(todayVsYesterdayDiff, "Today"),
           weekPFI |-> generateWeekPFI(Slice1(pfiData), clock, utcOffset),
           todayPrecipitation |->
             getPrecipitationDisplay(
               determinePrecipitationType(today.precipitation.rain,
                                          today.precipitation.snow)),
           weekPrecipitation |-> weekPrecipitation(pfiData),
           todayHazard |-> getHazardDisplay(hazards[2]),
           weekHazards |-> weekHazards(hazards)])

\* ------------------------------------------------------------------------
\* Mock mode (mock configuration file; script.js:1219-1320)
\* ------------------------------------------------------------------------

\* One entry of window.mockConfig.  pfi is in hundredths of a degree; hazard
\* is a hazard name or "null".
MockDay(pfi, rain, snow, hazard) ==
  [pfi |-> pfi, precipitation |-> [rain |-> rain, snow |-> snow],
   hazard |-> hazard]

\* window.mockConfig as shipped, in the order yesterday, today, tomorrow,
\* day3, ..., day7 (the order of mockDayOrder, script.js:1269).
mockConfig ==
  << MockDay(2100, 15, 5, "null"),
     MockDay(700, 40, 20, "Heavy Rain"),
     MockDay(3800, 10, 0, "Extreme Heat"),
     MockDay(1600, 70, 15, "null"),
     MockDay(2400, 25, 0, "null"),
     MockDay(1900, 0, 0, "Strong Winds"),
     MockDay(0, 20, 40, "Snow/Ice"),
     MockDay(4300, 30, 25, "Fire Risk") >>

\* The threshold chain of generateMockComparisons (script.js:1233-1247) on
\* the difference itself, in hundredths of a degree.
mockComparison(todayVsYesterdayDiff) ==
  IF todayVsYesterdayDiff > 700 THEN "significantly_hotter"
  ELSE IF todayVsYesterdayDiff > 300 THEN "noticeably_hotter"
  ELSE IF todayVsYesterdayDiff > 100 THEN "hotter"
  ELSE IF todayVsYesterdayDiff < -700 THEN "significantly_colder"
  ELSE IF todayVsYesterdayDiff < -300 THEN "noticeably_colder"
  ELSE IF todayVsYesterdayDiff < -100 THEN "colder"
  ELSE "same"

\* `mockData && mockData.precipitation ? getPrecipitationDisplay(...) : hidden`
mockPrecipitationDisplay(mockData) ==
  getPrecipitationDisplay(
    determinePrecipitationType(mockData.precipitation.rain,
                               mockData.precipitation.snow))

\* `mockData && mockData.hazard ? getHazardDisplay(mockData.hazard) : hidden`
mockHazardDisplay(mockData) ==
  IF mockData.hazard = "null" THEN HiddenDisplay
  ELSE getHazardDisplay(mockData.hazard)

\* generateMockComparisons() in testing mode, reading the configuration
\* `config` and the wall clock.  The configuration has an entry with pfi,
\* precipitation and hazard for each of the eight days, as the shipped one
\* has, so the defaults for a missing entry (pfi 20 for yesterday, 22 for the
\* week) are not taken.
generateMockComparisons(config, clock) ==
  LET yesterdayMock == config[1]
      todayMock == config[2]
      todayVsYesterdayDiff == todayMock.pfi - yesterdayMock.pfi
      pfiValues == [k \in 1..8 |-> config[k].pfi]
  IN  [todayPFI |-> pfiValues[2],
       todayComparison |-> [comparison |-> mockComparison(todayVsYesterdayDiff)],
       weekPFI |->
         [dayNames |-> [i \in 1..6 |-> fallbackDayName(clock, i)],
          pfiValues |-> [i \in 1..6 |-> Num(pfiValues[i + 2])]],
       todayPrecipitation |-> mockPrecipitationDisplay(todayMock),
       weekPrecipitation |->
         [i \in 1..6 |-> mockPrecipitationDisplay(config[i + 2])],
       todayHazard |-> mockHazardDisplay(todayMock),
       weekHazards |-> [i \in 1..6 |-> mockHazardDisplay(config[i + 2])]]

\* ------------------------------------------------------------------------
\* The page (script.js:1376-1512)
\* ------------------------------------------------------------------------

\* The text `${n}°` and the text '--°'.
DegreesText(n) == [marker |-> FALSE, degrees |-> n]
NoDataMarker == [marker |-> TRUE, degrees |-> 0]

\* The number of .day-item elements of the week: one for each of the six
\* sample values of showFallbackData and of the six forward days.
DayItems == 6

\* The elements of the weather display that displayResults and
\* showFallbackData write, before the first cycle: the today block and the
\* day items of the week, nothing shown yet.

InitialPage ==
  [pfiValue |-> NoDataMarker,
   hazardToday |->
     [display |-> "none", icon |-> "", label |-> "", colorClass |-> ""],
   precipitationToday |-> [display |-> "none", icon |-> "", label |-> ""],
   dayItems |->
     [i \in 1..DayItems |->
        [dayName |-> "",
         dayPfi |-> NoDataMarker,
         hazardWeek |-> [display |-> "none", icon |-> "", colorClass |-> ""],
         precipitationWeek |-> [display |-> "none", icon |-> ""]]]]

\* `${Math.round(v)}°` for an element v of pfiValues that is not undefined:
\* a number in hundredths, or null (Math.round(null) is 0).
roundedDegrees(v) == DegreesText(MathRound(OrZero(v), 100))

\* The text of .day-pfi for JS index `index - 1` (script.js:1458-1464): the
\* element is undefined only past the end of pfiValues.
dayPfiText(pfiValues, index) ==
  IF index <= Len(pfiValues) THEN roundedDegrees(pfiValues[index])
  ELSE NoDataMarker

\* The hazard / precipitation part of one day item (script.js:1466-1489).
weekIndicators_both(item, hazard, precipitation) ==
  [item EXCEPT
     !.hazardWeek =
        IF hazard.show
        THEN [display |-> "flex", icon |-> hazard.icon,
              colorClass |-> hazard.colorClass]
        ELSE [@ EXCEPT !.display = "none"],
     !.precipitationWeek =
        IF precipitation.show
        THEN [display |-> "flex", icon |-> precipitation.icon]
        ELSE [@ EXCEPT !.display = "none"]]

weekIndicators(item, hazard, precipitation) ==
  IF hazard.show
  THEN [item EXCEPT
          !.hazardWeek = [display |-> "flex", icon |-> hazard.icon,
                          colorClass |-> hazard.colorClass],
          !.precipitationWeek.display = "none"]
  ELSE IF precipitation.show
  THEN [item EXCEPT
          !.precipitationWeek = [display |-> "flex",
                                 icon |-> precipitation.icon],
          !.hazardWeek.display = "none"]
  ELSE [item EXCEPT !.precipitationWeek.display = "none",
                    !.hazardWeek.display = "none"]

\* The hazard / precipitation part of the today block (script.js:1409-1438).
todayIndicators(page, hazard, precipitation) ==
  IF hazard.show
  THEN [page EXCEPT
          !.hazardToday = [display |-> "flex", icon |-> hazard.icon,
                           label |-> hazard.label,
                           colorClass |-> hazard.colorClass],
          !.precipitationToday.display = "none"]
  ELSE IF precipitation.show
  THEN [page EXCEPT
          !.precipitationToday = [display |-> "flex",
                                  icon |-> precipitation.icon,
                                  label |-> precipitation.label],
          !.hazardToday.display = "none"]
  ELSE [page EXCEPT !.precipitationToday.display = "none",
                    !.hazardToday.display = "none"]

\* displayResults(comparisons) on the page `page`, except for the feel-change
\* text (displayText above).  todayPFI is a number on both paths; dayNames
\* has as many entries as the page has day items.
displayResults(comparisons, page) ==
  LET today == todayIndicators(
                 [page EXCEPT
                    !.pfiValue =
                       DegreesText(MathRound(comparisons.todayPFI, 100))],
                 comparisons.todayHazard, comparisons.todayPrecipitation)
  IN  [today EXCEPT
         !.dayItems =
            [index \in 1..DayItems |->
               IF index <= Len(comparisons.weekPFI.dayNames)
               THEN weekIndicators(
                      [page.dayItems[index] EXCEPT
                         !.dayName = comparisons.weekPFI.dayNames[index],
                         !.dayPfi = dayPfiText(comparisons.weekPFI.pfiValues,
                                               index)],
                      comparisons.weekHazards[index],
                      comparisons.weekPrecipitation[index])
               ELSE page.dayItems[index]]]

\* const samplePFI = [25, 20, 28, 23, 26, 21]
samplePFI == <<25, 20, 28, 23, 26, 21>>

\* showFallbackData() on the page `page`, except for the "Sample data" text.
showFallbackData(page) ==
  [page EXCEPT
     !.pfiValue = DegreesText(22),
     !.dayItems =
        [index \in 1..DayItems |->
           [page.dayItems[index] EXCEPT
              !.dayPfi = DegreesText(samplePFI[index])]]]

\* ------------------------------------------------------------------------
\* Weather responses
\* ------------------------------------------------------------------------

\* One day of the daily arrays of the weather response (script.js:979): the
\* i-th element of daily.time, daily.apparent_temperature_min, ...
MakeDay(time, tempMin, tempMax, cloud, precipProb, precipSum, wind, humidity) ==
  [time |-> time,
   apparent_temperature_min |-> tempMin,
   apparent_temperature_max |-> tempMax,
   cloudcover_mean |-> cloud,
   precipitation_probability_max |-> precipProb,
   precipitation_sum |-> precipSum,
   windspeed_10m_max |-> wind,
   relative_humidity_2m_mean |-> humidity]

\* Three kinds of day that differ in PFI, precipitation display and hazard:
\* a hot dry windy day (Fire Risk, no precipitation shown), a mild rainy day
\* (no hazard, "Rain expected") and a freezing day (Snow/Ice, "Likely to
\* snow").
Profiles == {"hot", "mild", "cold"}

ProfileDay(profile, time) ==
  CASE profile = "hot" -> MakeDay(time, 250, 400, 10, JsNull, 0, 30, 20)
    [] profile = "mild" -> MakeDay(time, 100, 200, 50, Num(80), 5, 10, 60)
    [] profile = "calm" -> MakeDay(time, 120, 190, 50, Num(20), 0, 10, 50)
    [] OTHER -> MakeDay(time, -50, 10, 90, Num(50), 2, 10, 80)

\* The daily arrays of a response: consecutive dates from FirstDate, the
\* kind of each day given by `profiles`.
Window(profiles) ==
  [i \in 1..Len(profiles) |-> ProfileDay(profiles[i], FirstDate + i - 1)]

\* The lengths of the responses considered: one entry too few, the required
\* number, and more (the request asks for past_days=1 and forecast_days=7,
\* i.e. 8 entries).
WindowLengths == (RequiredDays - 1)..(RequiredDays + ExtraDays)

\* The browser's time zones considered: hours from UTC.
UtcOffsets == {-5, 2}

\* ------------------------------------------------------------------------
\* Locations (script.js:5, 23-57, 232-257, 931-965)
\* ------------------------------------------------------------------------

\* A value of LOCATION: null, or {latitude, longitude}, in hundredths of a
\* degree.
NullLocation == [isNull |-> TRUE, latitude |-> 0, longitude |-> 0]
Coordinates(latitude, longitude) ==
  [isNull |-> FALSE, latitude |-> latitude, longitude |-> longitude]

\* `LOCATION && LOCATION.latitude && LOCATION.longitude` (script.js:810).
hasLocation(location) ==
  ~location.isNull /\ location.latitude # 0 /\ location.longitude # 0

\* The places the geocoding search returns, with the full name the result
\* click handler builds, and the place the IP services report.
Place(name, latitude, longitude) ==
  [name |-> name, latitude |-> latitude, longitude |-> longitude]

Oslo == Place("Oslo, Norway", 5991, 1075)
Lima == Place("Lima, Peru", -1205, -7704)
SearchResults == {Oslo, Lima}
IpPlace == Place("Cairo, Egypt", 3004, 3124)

\* The default of getLocationFromIP when every service fails
\* (script.js:958-964).
DefaultLocation == Coordinates(3208, 3478)

\* The item 'weatherAppLocation' of localStorage: absent, or the place saved
\* by saveLocation.
NoItem == [saved |-> FALSE]
SavedItem(place) == [saved |-> TRUE, place |-> place]

\* ------------------------------------------------------------------------
\* State
\* ------------------------------------------------------------------------

VARIABLES
  pc,                  \* position of initWeatherApp within its cycle
  isWeatherAppRunning, \* script.js:6
  clock,               \* local calendar day of the wall clock (new Date())
  utcOffset,           \* the browser's time zone, hours from UTC
  weatherData,         \* local of initWeatherApp: the combined response
  pfiData,             \* local of initWeatherApp: result of calculatePFI
  comparisons,         \* local of initWeatherApp: result of generateComparisons
  err,                 \* the error caught by initWeatherApp, "" when none
  comparisonHTML,      \* content of the .comparison element
  errorMessage,        \* text of the error element, <<>> while it is hidden
  args,                \* a direct call of a derivation function: its input
  ret,                 \* a direct call of a derivation function: its result
  dom,                 \* the other elements of the weather display
  LOCATION,            \* script.js:5
  currentLocationName, \* script.js:16
  ipBasedLocationName, \* script.js:17
  ipLocationDetected,  \* script.js:18
  isDismissing,        \* script.js:20
  TESTING_MODE,        \* window.TESTING_MODE, set by the mock configuration
  localStorage,        \* the item 'weatherAppLocation', or NoItem
  timers,              \* pending 250 ms timeouts that will call initWeatherApp
  request,             \* the location in the URLs of the weather request sent
  fetches,             \* the two fetchWithTimeout calls of fetchWeatherData
  ipResponses,         \* getLocationFromIP: the answers of the services so far
  locationRequests,    \* fetchLocations: the queries whose request is in flight
  awaitingIP,          \* showCurrentLocationResult: activations at their await
  searchInput,         \* the search input: its value and stored previous value
  searchResults,       \* the result list: its children and class has-results
  weatherHidden,       \* .weather-data has the class search-hidden
  dismissVisible,      \* the dismiss button has the class search-visible
  timeouts,            \* pending setTimeout callbacks, in order of creation
  timeout,             \* the variable timeout of debounce (script.js:305)
  history              \* what the user and the timers have done so far

\* The globals of the location search.
globals == <<LOCATION, currentLocationName, ipBasedLocationName,
             ipLocationDetected, isDismissing>>

\* The browser's side: configuration, storage, timers and the network.
browser == <<TESTING_MODE, localStorage, timers, request>>

\* The requests of the page.
network == <<fetches, ipResponses, locationRequests, awaitingIP>>

\* The search box and its timers.
searchBox == <<searchInput, searchResults, weatherHidden, dismissVisible,
               timeouts, timeout, history>>

vars == <<pc, isWeatherAppRunning, clock, utcOffset, weatherData, pfiData,
          comparisons, err, comparisonHTML, errorMessage, args, ret, dom,
          globals, browser, network, searchBox>>

\* A fetchWithTimeout call: not made, or its state, whether its timer is
\* pending and whether its controller has aborted.
NotCalled == [state |-> "none", timer |-> FALSE, aborted |-> FALSE,
              data |-> <<>>]
NoFetches == [current |-> NotCalled, daily |-> NotCalled]

\* The result list without children.
NoResults == [children |-> <<>>, hasResults |-> FALSE]

\* No timeout has been set by the debounced function.
NoTimeout == [set |-> FALSE, id |-> 0]

\* Nothing has been typed or clicked.
NoHistory == [events |-> 0, lastQuery |-> "", lastArg |-> "", sinceCall |-> 0,
              runs |-> 0, invoked |-> <<>>]

\* The search box of a page that has just been parsed.
FreshSearchBox ==
  /\ searchInput = [value |-> "", previousValue |-> "", focused |-> FALSE]
  /\ searchResults = NoResults
  /\ weatherHidden = FALSE
  /\ dismissVisible = FALSE
  /\ timeouts = <<>>
  /\ timeout = NoTimeout
  /\ history = NoHistory

\* No request has been sent.
NoRequests ==
  /\ fetches = NoFetches
  /\ ipResponses = <<>>
  /\ locationRequests = {}
  /\ awaitingIP = 0

NoWeatherData == [daily |-> <<>>]
NoComparisons == [none |-> TRUE]
NoCall == [fn |-> "none"]
Pending == [pending |-> TRUE]

Init ==
  /\ pc = "idle"
  /\ isWeatherAppRunning = FALSE
  /\ clock = FirstDate + 1
  /\ utcOffset \in UtcOffsets
  /\ weatherData = NoWeatherData
  /\ pfiData = <<>>
  /\ comparisons = NoComparisons
  /\ err = ""
  /\ comparisonHTML = ""
  /\ errorMessage = <<>>
  /\ args = NoCall
  /\ ret = Pending
  /\ dom = InitialPage
  /\ LOCATION = NullLocation
  /\ currentLocationName = "Loading..."
  /\ ipBasedLocationName = "Loading..."
  /\ ipLocationDetected = FALSE
  /\ isDismissing = FALSE
  /\ TESTING_MODE = FALSE
  /\ localStorage = SavedItem(Oslo)
  /\ timers = 0
  /\ request = NullLocation
  /\ NoRequests
  /\ FreshSearchBox

\* ------------------------------------------------------------------------
\* The weather cycle of initWeatherApp (script.js:762-863)
\* ------------------------------------------------------------------------

\* initWeatherApp() without the check of isWeatherAppRunning.
initWeatherApp_unguarded(running, location, name, item, page) ==
  IF TESTING_MODE
  THEN LET mockComparisons == generateMockComparisons(mockConfig, clock)
       IN  /\ errorMessage' = <<>>
           /\ comparisonHTML' =
                displayText(mockComparisons.todayComparison.comparison)
           /\ dom' = displayResults(mockComparisons, page)
           /\ isWeatherAppRunning' = FALSE
           /\ LOCATION' = location
           /\ currentLocationName' = name
           /\ UNCHANGED <<pc, request>>
  ELSE /\ isWeatherAppRunning' = TRUE
       /\ errorMessage' = <<>>
       /\ comparisonHTML' = "Loading..."
       /\ dom' = page
       /\ IF hasLocation(location)
          THEN /\ LOCATION' = location
               /\ currentLocationName' = name
               /\ request' = location
               /\ pc' = "fetchWeatherData"
          ELSE IF item.saved
          THEN /\ LOCATION' = Coordinates(item.place.latitude,
                                          item.place.longitude)
               /\ currentLocationName' = item.place.name
               /\ request' = Coordinates(item.place.latitude,
                                         item.place.longitude)
               /\ pc' = "fetchWeatherData"
          ELSE /\ LOCATION' = location
               /\ currentLocationName' = name
               /\ UNCHANGED request
               /\ pc' = "getLocationFromIP"

\* A call of initWeatherApp(), up to its first await.  The arguments are the
\* values that isWeatherAppRunning, LOCATION, currentLocationName, the
\* localStorage item and the page have when the call is made (the caller may
\* have assigned them just before).  A call while a cycle is running returns
\* at once.  In mock mode the whole cycle is synchronous.  On the live path
\* the location is resolved (the selected one, else the saved one, else the
\* await of getLocationFromIP) and fetchWeatherData builds its URLs from
\* LOCATION and awaits the responses.
initWeatherApp(running, location, name, item, page) ==
  IF running
  THEN /\ LOCATION' = location
       /\ currentLocationName' = name
       /\ dom' = page
       /\ UNCHANGED <<pc, isWeatherAppRunning, comparisonHTML, errorMessage,
                      request>>
  ELSE IF TESTING_MODE
  THEN LET mockComparisons == generateMockComparisons(mockConfig, clock)
       IN  /\ errorMessage' = <<>>
           /\ comparisonHTML' =
                displayText(mockComparisons.todayComparison.comparison)
           /\ dom' = displayResults(mockComparisons, page)
           /\ isWeatherAppRunning' = FALSE
           /\ LOCATION' = location
           /\ currentLocationName' = name
           /\ UNCHANGED <<pc, request>>
  ELSE /\ isWeatherAppRunning' = TRUE
       /\ errorMessage' = <<>>
       /\ comparisonHTML' = "Loading..."
       /\ dom' = page
       /\ IF hasLocation(location)
          THEN /\ LOCATION' = location
               /\ currentLocationName' = name
               /\ request' = location
               /\ pc' = "fetchWeatherData"
          ELSE IF item.saved
          THEN /\ LOCATION' = Coordinates(item.place.latitude,
                                          item.place.longitude)
               /\ currentLocationName' = item.place.name
               /\ request' = Coordinates(item.place.latitude,
                                         item.place.longitude)
               /\ pc' = "fetchWeatherData"
          ELSE /\ LOCATION' = location
               /\ currentLocationName' = name
               /\ UNCHANGED request
               /\ pc' = "getLocationFromIP"

\* The page is loaded (script.js:1562-1599): the script's globals and the
\* page are fresh, loadSavedLocation reads the saved item, and initWeatherApp
\* is called.
DOMContentLoaded ==
  /\ pc = "idle"
  /\ initWeatherApp(FALSE,
                    IF localStorage.saved
                    THEN Coordinates(localStorage.place.latitude,
                                     localStorage.place.longitude)
                    ELSE NullLocation,
                    IF localStorage.saved THEN localStorage.place.name
                    ELSE "Loading...",
                    localStorage, InitialPage)
  /\ ipBasedLocationName' = "Loading..."
  /\ ipLocationDetected' = FALSE
  /\ isDismissing' = FALSE
  /\ timers' = 0
  /\ UNCHANGED <<clock, utcOffset, weatherData, pfiData, comparisons, err,
                 args, ret, TESTING_MODE, localStorage>>
  /\ searchInput' = [value |-> currentLocationName', previousValue |-> "",
                      focused |-> FALSE]
  /\ searchResults' = NoResults
  /\ weatherHidden' = FALSE
  /\ dismissVisible' = FALSE
  /\ timeouts' = <<>>
  /\ timeout' = NoTimeout
  /\ history' = NoHistory
  /\ fetches' = NoFetches
  /\ ipResponses' = <<>>
  /\ locationRequests' = {}
  /\ awaitingIP' = 0

\* initWeatherApp is called on the page as it stands while no cycle is in
\* progress (retryApp, script.js:1527-1539).
InitWeatherApp ==
  /\ pc = "idle"
  /\ initWeatherApp(isWeatherAppRunning, LOCATION, currentLocationName,
                    localStorage, dom)
  /\ UNCHANGED <<clock, utcOffset, weatherData, pfiData, comparisons, err,
                 args, ret, ipBasedLocationName, ipLocationDetected,
                 isDismissing, TESTING_MODE, localStorage, timers>>
  /\ UNCHANGED <<network, searchBox>>

\* fetchWeatherData resolves with the combined response.  The days after
\* the eighth, which are beyond the last day displayed, are like the eighth.
FetchWeatherData ==
  /\ pc = "fetchWeatherData"
  /\ \E n \in WindowLengths :
       \E profiles \in [1..(IF n > RequiredDays + 1 THEN RequiredDays + 1
                             ELSE n) -> Profiles] :
         weatherData' =
           [daily |-> Window([i \in 1..n |->
                                IF i > RequiredDays + 1
                                THEN profiles[RequiredDays + 1]
                                ELSE profiles[i]])]
  /\ pc' = "calculatePFI"
  /\ UNCHANGED <<isWeatherAppRunning, clock, utcOffset, pfiData, comparisons,
                 err, comparisonHTML, errorMessage, args, ret>>
  /\ UNCHANGED <<dom, globals, browser>>
  /\ UNCHANGED <<network, searchBox>>

\* fetchWeatherData rejects (script.js:1010-1013).
FetchWeatherDataFails ==
  /\ pc = "fetchWeatherData"
  /\ err' = "Weather API error"
  /\ pc' = "catch"
  /\ UNCHANGED <<isWeatherAppRunning, clock, utcOffset, weatherData, pfiData,
                 comparisons, comparisonHTML, errorMessage, args, ret>>
  /\ UNCHANGED <<dom, globals, browser>>
  /\ UNCHANGED <<network, searchBox>>

\* const pfiData = calculatePFI(weatherData)
CalculatePFI ==
  /\ pc = "calculatePFI"
  /\ pfiData' = calculatePFI(weatherData)
  /\ pc' = "generateComparisons"
  /\ UNCHANGED <<isWeatherAppRunning, clock, utcOffset, weatherData,
                 comparisons, err, comparisonHTML, errorMessage, args, ret>>
  /\ UNCHANGED <<dom, globals, browser>>
  /\ UNCHANGED <<network, searchBox>>

\* const comparisons = generateComparisons(pfiData, ..., weatherData); an
\* error thrown is caught by the catch block of initWeatherApp.
GenerateComparisons ==
  /\ pc = "generateComparisons"
  /\ LET result == generateComparisons(pfiData, 0, weatherData, clock, utcOffset)
     IN  IF result.threw
         THEN /\ err' = result.message
              /\ pc' = "catch"
              /\ UNCHANGED comparisons
         ELSE /\ comparisons' = result.value
              /\ pc' = "displayResults"
              /\ UNCHANGED err
  /\ UNCHANGED <<isWeatherAppRunning, clock, utcOffset, weatherData, pfiData,
                 comparisonHTML, errorMessage, args, ret>>
  /\ UNCHANGED <<dom, globals, browser>>
  /\ UNCHANGED <<network, searchBox>>

\* displayResults(comparisons) writes the feel-change text and the page; then
\* the finally block resets the flag and the locals go out of scope.
DisplayResults ==
  /\ pc = "displayResults"
  /\ comparisonHTML' = displayText(comparisons.todayComparison.comparison)
  /\ dom' = displayResults(comparisons, dom)
  /\ isWeatherAppRunning' = FALSE
  /\ pc' = "idle"
  /\ weatherData' = NoWeatherData
  /\ pfiData' = <<>>
  /\ comparisons' = NoComparisons
  /\ UNCHANGED <<clock, utcOffset, err, errorMessage, args, ret>>
  /\ UNCHANGED <<globals, browser>>
  /\ UNCHANGED <<network, searchBox>>

\* The catch block: showFallbackData and showError, then the finally block.
CatchError_errorOnly ==
  /\ pc = "catch"
  /\ comparisonHTML' = "Loading..."
  /\ errorMessage' = <<"Failed to load weather data: ", err>>
  /\ isWeatherAppRunning' = FALSE
  /\ pc' = "idle"
  /\ weatherData' = NoWeatherData
  /\ pfiData' = <<>>
  /\ comparisons' = NoComparisons
  /\ err' = ""
  /\ UNCHANGED <<clock, utcOffset, args, ret>>
  /\ UNCHANGED <<dom, globals, browser>>
  /\ UNCHANGED <<network, searchBox>>

CatchError ==
  /\ pc = "catch"
  /\ comparisonHTML' = "Sample data for testing"
  /\ dom' = showFallbackData(dom)
  /\ errorMessage' = <<"Using sample data. API error: ", err>>
  /\ isWeatherAppRunning' = FALSE
  /\ pc' = "idle"
  /\ weatherData' = NoWeatherData
  /\ pfiData' = <<>>
  /\ comparisons' = NoComparisons
  /\ err' = ""
  /\ UNCHANGED <<clock, utcOffset, args, ret>>
  /\ UNCHANGED <<globals, browser>>
  /\ UNCHANGED <<network, searchBox>>

\* Midnight passes on the wall clock.
Tick ==
  /\ clock < FirstDate + 1 + MaxClockSkew
  /\ clock' = clock + 1
  /\ UNCHANGED <<pc, isWeatherAppRunning, utcOffset, weatherData, pfiData,
                 comparisons, err, comparisonHTML, errorMessage, args, ret>>
  /\ UNCHANGED <<dom, globals, browser>>
  /\ UNCHANGED <<network, searchBox>>

Next ==
  \/ DOMContentLoaded
  \/ FetchWeatherData
  \/ FetchWeatherDataFails
  \/ CalculatePFI
  \/ GenerateComparisons
  \/ DisplayResults
  \/ CatchError
  \/ Tick

Spec == Init /\ [][Next]_vars

\* ------------------------------------------------------------------------
\* Successive cycles on one page
\* ------------------------------------------------------------------------

\* The kinds of day of the forecasts below: those of Profiles and a day with
\* neither a hazard nor a precipitation display.
PageProfiles == Profiles \cup {"calm"}

\* The page starts in live mode or in mock mode.
InitPage ==
  /\ pc = "idle"
  /\ isWeatherAppRunning = FALSE
  /\ clock = FirstDate + 1
  /\ utcOffset \in UtcOffsets
  /\ weatherData = NoWeatherData
  /\ pfiData = <<>>
  /\ comparisons = NoComparisons
  /\ err = ""
  /\ comparisonHTML = ""
  /\ errorMessage = <<>>
  /\ args = NoCall
  /\ ret = Pending
  /\ dom = InitialPage
  /\ LOCATION = NullLocation
  /\ currentLocationName = "Loading..."
  /\ ipBasedLocationName = "Loading..."
  /\ ipLocationDetected = FALSE
  /\ isDismissing = FALSE
  /\ TESTING_MODE \in BOOLEAN
  /\ localStorage = SavedItem(Oslo)
  /\ timers = 0
  /\ request = NullLocation
  /\ NoRequests
  /\ FreshSearchBox

\* fetchWeatherData resolves with a response whose days are all of one kind.
FetchUniformForecast ==
  /\ pc = "fetchWeatherData"
  /\ \E n \in WindowLengths :
       \E profile \in PageProfiles :
         weatherData' = [daily |-> Window([i \in 1..n |-> profile])]
  /\ pc' = "calculatePFI"
  /\ UNCHANGED <<isWeatherAppRunning, clock, utcOffset, pfiData, comparisons,
                 err, comparisonHTML, errorMessage, args, ret>>
  /\ UNCHANGED <<dom, globals, browser>>
  /\ UNCHANGED <<network, searchBox>>

NextPage ==
  \/ DOMContentLoaded
  \/ InitWeatherApp
  \/ FetchUniformForecast
  \/ FetchWeatherDataFails
  \/ CalculatePFI
  \/ GenerateComparisons
  \/ DisplayResults
  \/ CatchError
  \/ Tick

SpecPage == InitPage /\ [][NextPage]_vars

\* ------------------------------------------------------------------------
\* The end of a cycle on every exit path
\* ------------------------------------------------------------------------

\* The catch block when showFallbackData throws (an element of the page is
\* missing): the inner catch shows the error alone, and no finally block
\* resets the flag.
CatchFallbackFails_noFinally ==
  /\ pc = "catch"
  /\ comparisonHTML' \in {comparisonHTML, "Sample data for testing"}
  /\ errorMessage' = <<"Failed to load weather data: ", err>>
  /\ pc' = "idle"
  /\ weatherData' = NoWeatherData
  /\ pfiData' = <<>>
  /\ comparisons' = NoComparisons
  /\ err' = ""
  /\ UNCHANGED <<isWeatherAppRunning, clock, utcOffset, args, ret>>
  /\ UNCHANGED <<dom, globals, browser>>
  /\ UNCHANGED <<network, searchBox>>

\* The catch block when showFallbackData throws (script.js:846-853): the
\* sample text was written or not, depending on the element that is missing;
\* the inner catch shows the error alone; then the finally block.
CatchFallbackFails ==
  /\ pc = "catch"
  /\ comparisonHTML' \in {comparisonHTML, "Sample data for testing"}
  /\ errorMessage' = <<"Failed to load weather data: ", err>>
  /\ isWeatherAppRunning' = FALSE
  /\ pc' = "idle"
  /\ weatherData' = NoWeatherData
  /\ pfiData' = <<>>
  /\ comparisons' = NoComparisons
  /\ err' = ""
  /\ UNCHANGED <<clock, utcOffset, args, ret>>
  /\ UNCHANGED <<dom, globals, browser>>
  /\ UNCHANGED <<network, searchBox>>

NextCycle ==
  \/ DOMContentLoaded
  \/ InitWeatherApp
  \/ FetchUniformForecast
  \/ FetchWeatherDataFails
  \/ CalculatePFI
  \/ GenerateComparisons
  \/ DisplayResults
  \/ CatchError
  \/ CatchFallbackFails

\* The steps of a running cycle.  Each request is abandoned after its timeout
\* (script.js:598-616), so a cycle that waits is resumed; the rest of the
\* cycle is synchronous.
CycleStep ==
  \/ FetchUniformForecast
  \/ FetchWeatherDataFails
  \/ CalculatePFI
  \/ GenerateComparisons
  \/ DisplayResults
  \/ CatchError
  \/ CatchFallbackFails

SpecCycle == InitPage /\ [][NextCycle]_vars /\ WF_vars(CycleStep)

\* ------------------------------------------------------------------------
\* Location selection during a cycle
\* ------------------------------------------------------------------------

\* Pending timeouts of result clicks kept by the model.
MaxTimers == 1

\* Events are delivered while the script is not running: between cycles or
\* while initWeatherApp is suspended at an await.
AtAwait == pc \in {"idle", "getLocationFromIP", "fetchWeatherData"}

\* The weather at a place: the kind of day the service forecasts there.
PlaceProfile(location) ==
  CASE location = Coordinates(Oslo.latitude, Oslo.longitude) -> "cold"
    [] location = Coordinates(Lima.latitude, Lima.longitude) -> "mild"
    [] location = Coordinates(IpPlace.latitude, IpPlace.longitude) -> "hot"
    [] OTHER -> "calm"

\* A search result is clicked (script.js:232-293): the place becomes the
\* location, is saved, and initWeatherApp is scheduled 250 ms later.
SelectResult ==
  /\ AtAwait
  /\ timers < MaxTimers
  /\ \E place \in SearchResults :
       /\ currentLocationName' = place.name
       /\ LOCATION' = Coordinates(place.latitude, place.longitude)
       /\ localStorage' = SavedItem(place)
  /\ timers' = timers + 1
  /\ UNCHANGED <<pc, isWeatherAppRunning, clock, utcOffset, weatherData,
                 pfiData, comparisons, err, comparisonHTML, errorMessage,
                 args, ret, dom, ipBasedLocationName, ipLocationDetected,
                 isDismissing, TESTING_MODE, request>>
  /\ searchInput' = [searchInput EXCEPT
                        !.value = currentLocationName',
                        !.previousValue = currentLocationName']
  /\ searchResults' = [searchResults EXCEPT !.hasResults = FALSE]
  /\ UNCHANGED <<network, weatherHidden, dismissVisible, timeouts, timeout,
                 history>>

\* The timeout of a result click fires and calls initWeatherApp
\* (script.js:271-290).
TimeoutFires ==
  /\ AtAwait
  /\ timers > 0
  /\ timers' = timers - 1
  /\ initWeatherApp(isWeatherAppRunning, LOCATION, currentLocationName,
                    localStorage, dom)
  /\ UNCHANGED <<clock, utcOffset, weatherData, pfiData, comparisons, err,
                 args, ret, ipBasedLocationName, ipLocationDetected,
                 isDismissing, TESTING_MODE, localStorage>>
  /\ searchResults' = [searchResults EXCEPT !.children = <<>>]
  /\ weatherHidden' = FALSE
  /\ dismissVisible' = FALSE
  /\ UNCHANGED <<network, searchInput, timeouts, timeout, history>>

\* The current-location entry is clicked (script.js:162-198): the saved item
\* is removed, LOCATION and the detection flag are reset, and initWeatherApp
\* is called at once.
SelectCurrentLocation ==
  /\ AtAwait
  /\ localStorage' = NoItem
  /\ ipLocationDetected' = FALSE
  /\ initWeatherApp(isWeatherAppRunning, NullLocation, currentLocationName,
                    NoItem, dom)
  /\ UNCHANGED <<clock, utcOffset, weatherData, pfiData, comparisons, err,
                 args, ret, ipBasedLocationName, isDismissing, TESTING_MODE,
                 timers>>
  /\ searchInput' = [searchInput EXCEPT
                        !.value = ipBasedLocationName,
                        !.previousValue = ipBasedLocationName]
  /\ searchResults' = NoResults
  /\ weatherHidden' = FALSE
  /\ dismissVisible' = FALSE
  /\ UNCHANGED <<network, timeouts, timeout, history>>

\* getLocationFromIP returns (script.js:866-972): a service has answered, with
\* or without a city, or all have failed and the default coordinates are
\* taken.  fetchWeatherData then builds its URLs from LOCATION
\* (script.js:978-979).
GetLocationFromIP ==
  /\ pc = "getLocationFromIP"
  /\ \/ /\ LOCATION' = Coordinates(IpPlace.latitude, IpPlace.longitude)
        /\ \/ /\ currentLocationName' = IpPlace.name
              /\ ipBasedLocationName' = IpPlace.name
              /\ ipLocationDetected' = TRUE
              /\ searchInput' = [searchInput EXCEPT !.value = IpPlace.name]
           \/ UNCHANGED <<currentLocationName, ipBasedLocationName,
                          ipLocationDetected, searchInput>>
     \/ /\ LOCATION' = DefaultLocation
        /\ currentLocationName' = "Location unavailable"
        /\ ipBasedLocationName' = "Location unavailable"
        /\ ipLocationDetected' = TRUE
        /\ searchInput' = [searchInput EXCEPT !.value = "Location unavailable"]
  /\ request' = LOCATION'
  /\ pc' = "fetchWeatherData"
  /\ UNCHANGED <<isWeatherAppRunning, clock, utcOffset, weatherData, pfiData,
                 comparisons, err, comparisonHTML, errorMessage, args, ret,
                 dom, isDismissing, TESTING_MODE, localStorage, timers>>
  /\ UNCHANGED <<network, searchResults, weatherHidden, dismissVisible,
                 timeouts, timeout, history>>

\* fetchWeatherData resolves with the forecast of the place it asked for.
FetchForecast ==
  /\ pc = "fetchWeatherData"
  /\ \E n \in WindowLengths :
       weatherData' = [daily |-> Window([i \in 1..n |-> PlaceProfile(request)])]
  /\ pc' = "calculatePFI"
  /\ UNCHANGED <<isWeatherAppRunning, clock, utcOffset, pfiData, comparisons,
                 err, comparisonHTML, errorMessage, args, ret>>
  /\ UNCHANGED <<dom, globals, browser>>
  /\ UNCHANGED <<network, searchBox>>

NextSearch ==
  \/ DOMContentLoaded
  \/ SelectResult
  \/ TimeoutFires
  \/ SelectCurrentLocation
  \/ GetLocationFromIP
  \/ FetchForecast
  \/ FetchWeatherDataFails
  \/ CalculatePFI
  \/ GenerateComparisons
  \/ DisplayResults
  \/ CatchError

SpecSearch == Init /\ [][NextSearch]_vars

\* ------------------------------------------------------------------------
\* fetchWeatherData, request by request (script.js:598-616, 975-1014)
\* ------------------------------------------------------------------------

\* The two requests of fetchWeatherData.
Endpoints == {"current", "daily"}

\* How a request can settle by itself: a response with an ok status, a
\* response with another status, or an error of fetch.
Outcomes == {"ok", "notOk", "failed"}

\* fetchWithTimeout(url) up to its await (script.js:598-606): the controller,
\* the timer and the request.
Sent == [state |-> "pending", timer |-> TRUE, aborted |-> FALSE, data |-> <<>>]

\* The request settles and the timer is left pending.
settle_timerKept(call, outcome, data) ==
  [state |-> outcome, timer |-> call.timer, aborted |-> call.aborted,
   data |-> data]

\* The request settles (script.js:607-615): the timer is cleared and the
\* response is returned, or the error thrown, as it came.
settle(call, outcome, data) ==
  [state |-> outcome, timer |-> FALSE, aborted |-> call.aborted,
   data |-> data]

\* The timer fires (script.js:600): the controller aborts; a request that is
\* pending is rejected and the call throws 'Request timed out'
\* (script.js:609-613).
abort(call) ==
  [state |-> IF call.state = "pending" THEN "timedOut" ELSE call.state,
   timer |-> FALSE, aborted |-> TRUE, data |-> call.data]

\* fetchWeatherData with the daily response alone deciding.
fetchWeatherDataResult_dailyOnly(calls) ==
  IF calls.daily.state \in {"failed", "timedOut", "notOk"} THEN "error"
  ELSE IF calls.daily.state = "ok" THEN "data"
  ELSE "pending"

\* fetchWeatherData after its await (script.js:982-1013): Promise.all rejects
\* with the first call that throws and resolves when both have returned;
\* then either status that is not ok throws; every error is thrown again as
\* 'Weather API error: ...'; else the combined data is returned.
fetchWeatherDataResult(calls) ==
  IF \E endpoint \in Endpoints : calls[endpoint].state \in {"failed", "timedOut"}
  THEN "error"
  ELSE IF \E endpoint \in Endpoints : calls[endpoint].state \in {"none", "pending"}
  THEN "pending"
  ELSE IF \A endpoint \in Endpoints : calls[endpoint].state = "ok"
  THEN "data"
  ELSE "error"

\* initWeatherApp resumes when fetchWeatherData has a result.
fetchWeatherDataResumes(calls) ==
  IF pc = "fetchWeatherData" /\ fetchWeatherDataResult(calls) = "data"
  THEN /\ weatherData' = [daily |-> calls.daily.data]
       /\ pc' = "calculatePFI"
       /\ UNCHANGED err
  ELSE IF pc = "fetchWeatherData" /\ fetchWeatherDataResult(calls) = "error"
  THEN /\ err' = "Weather API error"
       /\ pc' = "catch"
       /\ UNCHANGED weatherData
  ELSE UNCHANGED <<pc, weatherData, err>>

\* fetchWeatherData up to its await (script.js:975-985): both requests are
\* sent.
SendRequests ==
  /\ pc = "fetchWeatherData"
  /\ fetches = NoFetches
  /\ fetches' = [current |-> Sent, daily |-> Sent]
  /\ UNCHANGED <<pc, isWeatherAppRunning, clock, utcOffset, weatherData,
                 pfiData, comparisons, err, comparisonHTML, errorMessage,
                 args, ret, dom, globals, browser, ipResponses,
                 locationRequests, awaitingIP, searchBox>>

\* A request settles by itself.
RequestSettles ==
  /\ \E endpoint \in Endpoints :
       /\ fetches[endpoint].state = "pending"
       /\ \E outcome \in Outcomes :
            \E n \in WindowLengths :
              \E profile \in PageProfiles :
                fetches' = [fetches EXCEPT ![endpoint] =
                  settle(@, outcome,
                         IF outcome = "ok" /\ endpoint = "daily"
                         THEN Window([i \in 1..n |-> profile])
                         ELSE <<>>)]
  /\ fetchWeatherDataResumes(fetches')
  /\ UNCHANGED <<isWeatherAppRunning, clock, utcOffset, pfiData, comparisons,
                 comparisonHTML, errorMessage, args, ret, dom, globals,
                 browser, ipResponses, locationRequests, awaitingIP,
                 searchBox>>

\* The timer of a call fires.
TimerElapses ==
  /\ \E endpoint \in Endpoints :
       /\ fetches[endpoint].timer
       /\ fetches' = [fetches EXCEPT ![endpoint] = abort(@)]
  /\ fetchWeatherDataResumes(fetches')
  /\ UNCHANGED <<isWeatherAppRunning, clock, utcOffset, pfiData, comparisons,
                 comparisonHTML, errorMessage, args, ret, dom, globals,
                 browser, ipResponses, locationRequests, awaitingIP,
                 searchBox>>

NextFetch ==
  \/ DOMContentLoaded
  \/ SendRequests
  \/ RequestSettles
  \/ TimerElapses
  \/ CalculatePFI
  \/ GenerateComparisons
  \/ DisplayResults
  \/ CatchError

SpecFetch == Init /\ [][NextFetch]_vars

\* ------------------------------------------------------------------------
\* getLocationFromIP, service by service (script.js:866-972)
\* ------------------------------------------------------------------------

\* The services contacted in turn (script.js:870-875).
IpServices == 4

\* What a service can answer: an error (no connection, a timeout, a status
\* that is not ok, a body that is not JSON), the ipapi.co format with the
\* fields latitude and longitude, the ipinfo.io format with the field loc,
\* the ipify.org format with the field ip only, or anything else.  A
\* coordinate is that of IpPlace or zero; the city may be missing.
ServiceAnswers ==
  {[kind |-> kind, latitude |-> 0, longitude |-> 0, city |-> ""] :
     kind \in {"error", "ip", "other"}}
  \cup
  {[kind |-> kind, latitude |-> position[1], longitude |-> position[2],
    city |-> city] :
     kind \in {"coordinates", "loc"},
     position \in {<<IpPlace.latitude, IpPlace.longitude>>,
                   <<0, IpPlace.longitude>>, <<IpPlace.latitude, 0>>},
     city \in {"", IpPlace.name}}

\* locationData with a zero coordinate accepted.
locationData_zeroAccepted(answer) ==
  [found |-> answer.kind \in {"coordinates", "loc"},
   latitude |-> answer.latitude, longitude |-> answer.longitude,
   city |-> answer.city]

\* locationData after one answer (script.js:896-917): the coordinates are
\* taken when both are truthy, so a zero counts as missing.
locationData(answer) ==
  [found |-> /\ answer.kind \in {"coordinates", "loc"}
             /\ answer.latitude # 0
             /\ answer.longitude # 0,
   latitude |-> answer.latitude, longitude |-> answer.longitude,
   city |-> answer.city]

\* The page is loaded without a saved location.
InitIP ==
  /\ pc = "idle"
  /\ isWeatherAppRunning = FALSE
  /\ clock = FirstDate + 1
  /\ utcOffset \in UtcOffsets
  /\ weatherData = NoWeatherData
  /\ pfiData = <<>>
  /\ comparisons = NoComparisons
  /\ err = ""
  /\ comparisonHTML = ""
  /\ errorMessage = <<>>
  /\ args = NoCall
  /\ ret = Pending
  /\ dom = InitialPage
  /\ LOCATION = NullLocation
  /\ currentLocationName = "Loading..."
  /\ ipBasedLocationName = "Loading..."
  /\ ipLocationDetected = FALSE
  /\ isDismissing = FALSE
  /\ TESTING_MODE = FALSE
  /\ localStorage = NoItem
  /\ timers = 0
  /\ request = NullLocation
  /\ NoRequests
  /\ FreshSearchBox

\* The next service answers (script.js:881-927).  With coordinates the loop
\* ends, LOCATION is set and, when the answer names a city, so are the names,
\* the flag and the search input (script.js:930-952).  After the last service
\* without coordinates the default is taken (script.js:956-971).  When
\* getLocationFromIP has returned, fetchWeatherData builds its URLs from
\* LOCATION.
ContactService ==
  /\ pc = "getLocationFromIP"
  /\ Len(ipResponses) < IpServices
  /\ \E answer \in ServiceAnswers :
       /\ ipResponses' = Append(ipResponses, answer)
       /\ IF locationData(answer).found
          THEN /\ LOCATION' = Coordinates(locationData(answer).latitude,
                                          locationData(answer).longitude)
               /\ IF locationData(answer).city # ""
                  THEN /\ currentLocationName' = locationData(answer).city
                       /\ ipBasedLocationName' = locationData(answer).city
                       /\ ipLocationDetected' = TRUE
                       /\ searchInput' = [searchInput EXCEPT
                            !.value = locationData(answer).city]
                  ELSE UNCHANGED <<currentLocationName, ipBasedLocationName,
                                   ipLocationDetected, searchInput>>
               /\ request' = LOCATION'
               /\ pc' = "fetchWeatherData"
          ELSE IF Len(ipResponses') = IpServices
          THEN /\ LOCATION' = DefaultLocation
               /\ currentLocationName' = "Location unavailable"
               /\ ipBasedLocationName' = "Location unavailable"
               /\ ipLocationDetected' = TRUE
               /\ searchInput' = [searchInput EXCEPT
                    !.value = "Location unavailable"]
               /\ request' = LOCATION'
               /\ pc' = "fetchWeatherData"
          ELSE UNCHANGED <<pc, LOCATION, currentLocationName,
                           ipBasedLocationName, ipLocationDetected,
                           searchInput, request>>
  /\ UNCHANGED <<isWeatherAppRunning, clock, utcOffset, weatherData, pfiData,
                 comparisons, err, comparisonHTML, errorMessage, args, ret,
                 dom, isDismissing, TESTING_MODE, localStorage, timers,
                 fetches, locationRequests, awaitingIP, searchResults,
                 weatherHidden, dismissVisible, timeouts, timeout, history>>

NextIP ==
  \/ DOMContentLoaded
  \/ ContactService

SpecIP == InitIP /\ [][NextIP]_vars

\* ------------------------------------------------------------------------
\* The search box: typing, debounce and location requests
\* ------------------------------------------------------------------------

\* Events of the user handled by the model.
MaxEvents == 3

\* The delays of the script, in ms.  Time advances in steps of the smallest.
DebounceWait == 300
BlurDelay == 150
TransitionDelay == 250
ResizeDelay == 50
DismissReset == 650

\* What the user types, trimmed; the empty query is typed by deleting.
Queries == {"os", "li"}

\* The places the geocoding service finds for a query.
Results(query) ==
  CASE query = "os" -> <<Oslo>>
    [] query = "li" -> <<Lima>>
    [] OTHER -> <<>>

\* An id no pending timer has and the debounced function does not hold.
FreshId(pending) ==
  CHOOSE id \in 1..(Len(pending) + 2) :
    /\ id # timeout.id
    /\ \A k \in 1..Len(pending) : pending[k].id # id
    /\ \A smaller \in 1..(id - 1) :
         \/ smaller = timeout.id
         \/ \E k \in 1..Len(pending) : pending[k].id = smaller

\* setTimeout(callback, delay) and clearTimeout(id) on the list of pending
\* timers.
setTimeout(pending, callback, delay, arg) ==
  Append(pending, [id |-> FreshId(pending), callback |-> callback,
                   delay |-> delay, arg |-> arg])

clearTimeout(pending, id) ==
  SelectSeq(pending, LAMBDA timer : timer.id # id)

\* The timers that are due, and the one that fires next: the earliest created
\* of them.
Due == {k \in 1..Len(timeouts) : timeouts[k].delay = 0}
NextDue == CHOOSE k \in Due : \A other \in Due : k <= other
Fires(callback) == Due # {} /\ timeouts[NextDue].callback = callback
Fired == [k \in 1..(Len(timeouts) - 1) |->
            IF k < NextDue THEN timeouts[k] ELSE timeouts[k + 1]]

\* executedFunction without clearTimeout: every call leaves its own timer.
debounce_noClear(pending, held, arg) ==
  [timeouts |-> setTimeout(pending, "later", DebounceWait, arg),
   timeout |-> [set |-> TRUE, id |-> FreshId(pending)]]

\* executedFunction(...args) of debounce(func, wait) (script.js:304-314):
\* the timer held in timeout is cleared and a new one is set.
debounce(pending, held, arg) ==
  LET cleared == IF held.set THEN clearTimeout(pending, held.id) ELSE pending
  IN  [timeouts |-> setTimeout(cleared, "later", DebounceWait, arg),
       timeout |-> [set |-> TRUE, id |-> FreshId(cleared)]]

\* The name of the current-location entry (script.js:133-143).
displayLocationName ==
  IF ipLocationDetected /\ ipBasedLocationName \notin {"", "Loading..."}
  THEN ipBasedLocationName
  ELSE "Current location"

\* refreshIPLocationIfNeeded calls getLocationFromIP (script.js:1544).
NeedsIPLocation ==
  ~ipLocationDetected \/ ipBasedLocationName \in {"", "Loading..."}

\* renderResults(results) (script.js:120-300): nothing while dismissing; else
\* the current-location entry, then one entry for each place.  The class
\* has-results is added only when there are no places.
renderResults(results) ==
  IF isDismissing
  THEN searchResults
  ELSE [children |-> <<displayLocationName>>
                       \o [k \in 1..Len(results) |-> results[k].name],
        hasResults |-> searchResults.hasResults \/ Len(results) = 0]

\* showCurrentLocationResult() up to its await (script.js:504-592): nothing
\* while dismissing; else, when the IP location is known, the list becomes
\* the current-location entry; when it is not, the call waits for
\* getLocationFromIP.
showCurrentLocationResult ==
  IF isDismissing
  THEN UNCHANGED <<searchResults, awaitingIP>>
  ELSE IF NeedsIPLocation
  THEN /\ awaitingIP' = awaitingIP + 1
       /\ UNCHANGED searchResults
  ELSE /\ searchResults' = [children |-> <<displayLocationName>>,
                            hasResults |-> TRUE]
       /\ UNCHANGED awaitingIP

\* The page is loading: initWeatherApp waits for the weather of the saved
\* place, or of the place found from the IP address.
InitSearchBox ==
  /\ pc = "fetchWeatherData"
  /\ isWeatherAppRunning = TRUE
  /\ clock = FirstDate + 1
  /\ utcOffset = 2
  /\ weatherData = NoWeatherData
  /\ pfiData = <<>>
  /\ comparisons = NoComparisons
  /\ err = ""
  /\ comparisonHTML = "Loading..."
  /\ errorMessage = <<>>
  /\ args = NoCall
  /\ ret = Pending
  /\ dom = InitialPage
  /\ isDismissing = FALSE
  /\ TESTING_MODE = FALSE
  /\ timers = 0
  /\ \/ /\ localStorage = SavedItem(Oslo)
        /\ LOCATION = Coordinates(Oslo.latitude, Oslo.longitude)
        /\ currentLocationName = Oslo.name
        /\ ipBasedLocationName = "Loading..."
        /\ ipLocationDetected = FALSE
     \/ /\ localStorage = NoItem
        /\ LOCATION = Coordinates(IpPlace.latitude, IpPlace.longitude)
        /\ currentLocationName = IpPlace.name
        /\ ipBasedLocationName = IpPlace.name
        /\ ipLocationDetected = TRUE
  /\ request = LOCATION
  /\ NoRequests
  /\ searchInput = [value |-> currentLocationName, previousValue |-> "",
                    focused |-> FALSE]
  /\ searchResults = NoResults
  /\ weatherHidden = FALSE
  /\ dismissVisible = FALSE
  /\ timeouts = <<>>
  /\ timeout = NoTimeout
  /\ history = NoHistory

\* What the search box leaves alone.
cycle == <<pc, isWeatherAppRunning, clock, utcOffset, weatherData, pfiData,
           comparisons, err, comparisonHTML, errorMessage, args, ret, dom,
           browser, fetches, ipResponses>>

\* The input receives the focus (script.js:376-397).
Focus ==
  /\ ~searchInput.focused
  /\ history.events < MaxEvents
  /\ history' = [history EXCEPT !.events = @ + 1]
  /\ IF isDismissing
     THEN /\ searchInput' = [searchInput EXCEPT !.focused = TRUE]
          /\ UNCHANGED <<weatherHidden, dismissVisible, searchResults,
                         awaitingIP>>
     ELSE /\ searchInput' = [value |-> "",
                             previousValue |-> searchInput.value,
                             focused |-> TRUE]
          /\ weatherHidden' = TRUE
          /\ dismissVisible' = TRUE
          /\ showCurrentLocationResult
  /\ UNCHANGED <<cycle, globals, locationRequests, timeouts, timeout>>

\* The user edits the text (script.js:353-364): the input handler calls the
\* debounced search with the trimmed value.
Input ==
  /\ searchInput.focused
  /\ history.events < MaxEvents
  /\ \E query \in (Queries \cup {""}) \ {searchInput.value} :
       /\ searchInput' = [searchInput EXCEPT !.value = query]
       /\ IF isDismissing
          THEN /\ history' = [history EXCEPT !.events = @ + 1]
               /\ UNCHANGED <<timeouts, timeout>>
          ELSE /\ timeouts' = debounce(timeouts, timeout, query).timeouts
               /\ timeout' = debounce(timeouts, timeout, query).timeout
               /\ history' = [history EXCEPT
                    !.events = @ + 1,
                    !.lastArg = query,
                    !.sinceCall = 0,
                    !.runs = IF \E k \in 1..Len(timeouts) :
                                  timeouts[k].callback = "later"
                              THEN @ ELSE @ + 1]
  /\ UNCHANGED <<cycle, globals, network, searchResults, weatherHidden,
                 dismissVisible>>

\* The timer of the debounced function fires (script.js:307-310): later
\* clears the timer held in timeout and calls func, the debounced search
\* (script.js:317-350), which sends the location request for the query or,
\* for the empty query, shows the current-location entry.
Later ==
  /\ Fires("later")
  /\ LET query == timeouts[NextDue].arg
     IN  /\ timeouts' = clearTimeout(Fired, timeout.id)
         /\ history' = [history EXCEPT
              !.invoked = Append(@, query),
              !.lastQuery = IF isDismissing \/ query = "" THEN @ ELSE query]
         /\ IF isDismissing
            THEN UNCHANGED <<locationRequests, searchResults, awaitingIP>>
            ELSE IF query = ""
            THEN /\ showCurrentLocationResult
                 /\ UNCHANGED locationRequests
            ELSE /\ locationRequests' = locationRequests \cup {query}
                 /\ UNCHANGED <<searchResults, awaitingIP>>
  /\ UNCHANGED <<cycle, globals, searchInput, weatherHidden, dismissVisible,
                 timeout>>

\* A location request settles (script.js:98-117, 333-349): with the places
\* found, or with none when the request fails; the results are rendered.
LocationsArrive ==
  /\ \E query \in locationRequests :
       /\ locationRequests' = locationRequests \ {query}
       /\ \E results \in {Results(query), <<>>} :
            searchResults' = renderResults(results)
  /\ UNCHANGED <<cycle, globals, awaitingIP, searchInput, weatherHidden,
                 dismissVisible, timeouts, timeout, history>>

\* getLocationFromIP returns to a waiting showCurrentLocationResult
\* (script.js:1542-1559, 511-592): the globals take the place found, or the
\* default; refreshIPLocationIfNeeded puts the IP-based name into the input
\* when it shows the other name; the list becomes the current-location entry.
IPArrives ==
  /\ awaitingIP > 0
  /\ awaitingIP' = awaitingIP - 1
  /\ \/ /\ LOCATION' = Coordinates(IpPlace.latitude, IpPlace.longitude)
        /\ \/ /\ currentLocationName' = IpPlace.name
              /\ ipBasedLocationName' = IpPlace.name
              /\ ipLocationDetected' = TRUE
              /\ searchInput' = [searchInput EXCEPT !.value = IpPlace.name]
           \/ /\ UNCHANGED <<currentLocationName, ipBasedLocationName,
                             ipLocationDetected>>
              /\ searchInput' =
                   IF /\ searchInput.value = currentLocationName
                      /\ currentLocationName # ipBasedLocationName
                   THEN [searchInput EXCEPT !.value = ipBasedLocationName]
                   ELSE searchInput
     \/ /\ LOCATION' = DefaultLocation
        /\ currentLocationName' = "Location unavailable"
        /\ ipBasedLocationName' = "Location unavailable"
        /\ ipLocationDetected' = TRUE
        /\ searchInput' = [searchInput EXCEPT !.value = "Location unavailable"]
  /\ searchResults' =
       [children |-> <<IF ipLocationDetected'
                          /\ ipBasedLocationName' \notin {"", "Loading..."}
                       THEN ipBasedLocationName' ELSE "Current location">>,
        hasResults |-> TRUE]
  /\ UNCHANGED <<cycle, isDismissing, fetches, locationRequests,
                 weatherHidden, dismissVisible, timeouts, timeout, history>>

\* Time passes while no timer is due.
Advance ==
  /\ timeouts # <<>>
  /\ Due = {}
  /\ timeouts' = [k \in 1..Len(timeouts) |->
                   [timeouts[k] EXCEPT !.delay = @ - ResizeDelay]]
  /\ history' = [history EXCEPT
       !.sinceCall = IF @ < DebounceWait THEN @ + ResizeDelay ELSE @]
  /\ UNCHANGED <<cycle, globals, network, searchInput, searchResults,
                 weatherHidden, dismissVisible, timeout>>

NextDebounce ==
  \/ Focus
  \/ Input
  \/ Later
  \/ LocationsArrive
  \/ IPArrives
  \/ Advance

SpecDebounce == InitSearchBox /\ [][NextDebounce]_vars

\* ------------------------------------------------------------------------
\* The search box: blur and dismiss
\* ------------------------------------------------------------------------

\* The input loses the focus (script.js:399-424): the restoring step is
\* scheduled, unless a dismiss is in progress.
Blur ==
  /\ searchInput.focused
  /\ history.events < MaxEvents
  /\ history' = [history EXCEPT !.events = @ + 1]
  /\ searchInput' = [searchInput EXCEPT !.focused = FALSE]
  /\ timeouts' = IF isDismissing THEN timeouts
                 ELSE setTimeout(timeouts, "blur", BlurDelay, "")
  /\ UNCHANGED <<cycle, globals, network, searchResults, weatherHidden,
                 dismissVisible, timeout>>

\* The timeout of the blur listener fires (script.js:405-423): an empty input
\* over a non-empty list gets its previous value back and the list starts to
\* fade; the weather is shown and the dismiss button hidden.
BlurTimeout ==
  /\ Fires("blur")
  /\ IF Len(searchResults.children) > 0 /\ searchInput.value = ""
     THEN /\ searchInput' = [searchInput EXCEPT !.value =
               IF searchInput.previousValue # ""
               THEN searchInput.previousValue ELSE currentLocationName]
          /\ searchResults' = [searchResults EXCEPT !.hasResults = FALSE]
          /\ timeouts' = setTimeout(Fired, "blurClear", TransitionDelay, "")
     ELSE /\ timeouts' = Fired
          /\ UNCHANGED <<searchInput, searchResults>>
  /\ weatherHidden' = FALSE
  /\ dismissVisible' = FALSE
  /\ UNCHANGED <<cycle, globals, network, timeout, history>>

\* The inner timeout of the blur listener fires (script.js:415-417).
BlurClear ==
  /\ Fires("blurClear")
  /\ timeouts' = Fired
  /\ searchResults' = [searchResults EXCEPT !.children = <<>>]
  /\ UNCHANGED <<cycle, globals, network, searchInput, weatherHidden,
                 dismissVisible, timeout, history>>

\* The dismiss button is clicked (script.js:427-467): the flag is set, the
\* input shows the current location name and is blurred (its blur listener
\* returns at once, the flag being set), and the steps of the sequence and
\* the reset of the flag are scheduled.
DismissClick ==
  /\ dismissVisible
  /\ history.events < MaxEvents
  /\ history' = [history EXCEPT !.events = @ + 1]
  /\ isDismissing' = TRUE
  /\ searchResults' = [searchResults EXCEPT !.hasResults = FALSE]
  /\ searchInput' = [value |-> currentLocationName,
                     previousValue |-> currentLocationName,
                     focused |-> FALSE]
  /\ weatherHidden' = FALSE
  /\ timeouts' = setTimeout(
                   setTimeout(timeouts, "dismissClear", TransitionDelay, ""),
                   "dismissReset", DismissReset, "")
  /\ UNCHANGED <<cycle, LOCATION, currentLocationName, ipBasedLocationName,
                 ipLocationDetected, network, dismissVisible, timeout>>

\* First step of the sequence (script.js:446-461): the list is cleared.
DismissClear ==
  /\ Fires("dismissClear")
  /\ searchResults' = [searchResults EXCEPT !.children = <<>>]
  /\ timeouts' = setTimeout(Fired, "dismissHide", TransitionDelay, "")
  /\ UNCHANGED <<cycle, globals, network, searchInput, weatherHidden,
                 dismissVisible, timeout, history>>

\* Second step (script.js:451-460): the dismiss button is hidden.
DismissHide ==
  /\ Fires("dismissHide")
  /\ dismissVisible' = FALSE
  /\ timeouts' = setTimeout(Fired, "dismissResize", ResizeDelay, "")
  /\ UNCHANGED <<cycle, globals, network, searchInput, searchResults,
                 weatherHidden, timeout, history>>

\* Last step (script.js:457-459): resizeSearchInput sets the width of the
\* input; the sequence of this click is complete.
DismissResize ==
  /\ Fires("dismissResize")
  /\ timeouts' = Fired
  /\ UNCHANGED <<cycle, globals, network, searchInput, searchResults,
                 weatherHidden, dismissVisible, timeout, history>>

\* The reset scheduled by a click fires (script.js:464-466).
ResetDismissing ==
  /\ Fires("dismissReset")
  /\ timeouts' = Fired
  /\ isDismissing' = FALSE
  /\ UNCHANGED <<cycle, LOCATION, currentLocationName, ipBasedLocationName,
                 ipLocationDetected, network, searchInput, searchResults,
                 weatherHidden, dismissVisible, timeout, history>>

NextDismiss ==
  \/ Focus
  \/ Input
  \/ Blur
  \/ DismissClick
  \/ Later
  \/ LocationsArrive
  \/ IPArrives
  \/ BlurTimeout
  \/ BlurClear
  \/ DismissClear
  \/ DismissHide
  \/ DismissResize
  \/ ResetDismissing
  \/ Advance

SpecDismiss == InitSearchBox /\ [][NextDismiss]_vars

\* ------------------------------------------------------------------------
\* Direct calls of the derivation functions
\* ------------------------------------------------------------------------

\* Days around every threshold of detectHazards.
HazardDays ==
  {MakeDay(FirstDate, tempMin, tempMax, 50, precipProb, precipSum, wind,
           humidity) :
     tempMin \in {-10, 0, 10}, tempMax \in {310, 320, 380, 400},
     precipProb \in {JsNull, Num(69), Num(70)}, precipSum \in {0, 1, 30},
     wind \in {24, 25, 30, 50}, humidity \in {20, 30, 31}}

\* Days for calculatePFI: the average temperature negative, zero and
\* positive, cloud cover below, at and above 50.
PfiDays(time) ==
  {MakeDay(time, tempMin, tempMax, cloud, precipProb, 0, 0, 50) :
     tempMin \in {-50, 0, 100, 155}, tempMax \in {50, 200, 400},
     cloud \in {0, 50, 55, 100}, precipProb \in {JsNull, Num(50)}}

\* The PFI values of yesterday in the mock configurations considered, in
\* hundredths: the shipped 21 and a value with a fraction.
MockYesterdays == {2100, 1875}

\* The state from which one derivation function is called with one input:
\* detectHazards with a day around its thresholds, alone or followed by a
\* second day; calculatePFI with one or two days; determinePrecipitationType
\* with every pair of probabilities; generateComparisonData with every
\* difference up to MaxDiff; generateMockComparisons with the shipped
\* configuration, its PFI values of yesterday and today replaced;
\* generateComparisons with the responses of FetchWeatherData.  The call is
\* made on a fresh page or during a cycle for a selected place, while the
\* search is being dismissed.
InitCore ==
  /\ pc = "idle"
  /\ isWeatherAppRunning \in BOOLEAN
  /\ clock = FirstDate + 1
  /\ utcOffset = 0
  /\ weatherData = NoWeatherData
  /\ pfiData = <<>>
  /\ comparisons = NoComparisons
  /\ err = ""
  /\ comparisonHTML = ""
  /\ errorMessage = <<>>
  /\ \/ \E day \in HazardDays :
          args = [fn |-> "detectHazards", weatherData |-> [daily |-> <<day>>]]
     \/ \E day \in HazardDays, profile \in Profiles :
          args = [fn |-> "detectHazards",
                  weatherData |->
                    [daily |-> <<day, ProfileDay(profile, FirstDate + 1)>>]]
     \/ \E day \in PfiDays(FirstDate) :
          args = [fn |-> "calculatePFI", weatherData |-> [daily |-> <<day>>]]
     \/ \E day1 \in PfiDays(FirstDate), day2 \in PfiDays(FirstDate + 1) :
          args = [fn |-> "calculatePFI",
                  weatherData |-> [daily |-> <<day1, day2>>]]
     \/ \E rainProb \in 0..MaxProb, snowProb \in 0..MaxProb :
          args = [fn |-> "determinePrecipitationType", rainProb |-> rainProb,
                  snowProb |-> snowProb]
     \/ \E difference \in (-MaxDiff)..MaxDiff :
          args = [fn |-> "generateComparisonData", difference |-> difference]
     \/ \E n \in WindowLengths :
          \E profiles \in [1..n -> Profiles] :
            args = [fn |-> "generateComparisons",
                    pfiData |-> calculatePFI([daily |-> Window(profiles)]),
                    weatherData |-> [daily |-> Window(profiles)]]
     \/ \E yesterday \in MockYesterdays, difference \in (-MaxDiff)..MaxDiff :
          args = [fn |-> "generateMockComparisons",
                  mockConfig |->
                    [mockConfig EXCEPT ![1].pfi = yesterday,
                                       ![2].pfi = yesterday + difference]]
  /\ ret = Pending
  /\ dom = InitialPage
  /\ LOCATION = IF isWeatherAppRunning
                THEN Coordinates(Oslo.latitude, Oslo.longitude)
                ELSE NullLocation
  /\ currentLocationName = IF isWeatherAppRunning THEN Oslo.name
                           ELSE "Loading..."
  /\ ipBasedLocationName = IF isWeatherAppRunning THEN IpPlace.name
                           ELSE "Loading..."
  /\ ipLocationDetected = isWeatherAppRunning
  /\ isDismissing = isWeatherAppRunning
  /\ TESTING_MODE = FALSE
  /\ localStorage = SavedItem(Oslo)
  /\ timers = 0
  /\ request = NullLocation
  /\ NoRequests
  /\ FreshSearchBox

\* hazards = detectHazards(weatherData)
CallDetectHazards ==
  /\ args.fn = "detectHazards"
  /\ ret = Pending
  /\ ret' = [pending |-> FALSE, hazards |-> detectHazards(args.weatherData)]
  /\ UNCHANGED <<pc, isWeatherAppRunning, clock, utcOffset, weatherData,
                 pfiData, comparisons, err, comparisonHTML, errorMessage, args>>
  /\ UNCHANGED <<dom, globals, browser>>
  /\ UNCHANGED <<network, searchBox>>

\* pfiData = calculatePFI(weatherData)
CallCalculatePFI ==
  /\ args.fn = "calculatePFI"
  /\ ret = Pending
  /\ ret' = [pending |-> FALSE, pfiData |-> calculatePFI(args.weatherData)]
  /\ UNCHANGED <<pc, isWeatherAppRunning, clock, utcOffset, weatherData,
                 pfiData, comparisons, err, comparisonHTML, errorMessage, args>>
  /\ UNCHANGED <<dom, globals, browser>>
  /\ UNCHANGED <<network, searchBox>>

\* getPrecipitationDisplay(determinePrecipitationType(rain, snow)), as at
\* script.js:1093 and 1119.
CallDeterminePrecipitationType ==
  /\ args.fn = "determinePrecipitationType"
  /\ ret = Pending
  /\ LET precipitationData ==
           determinePrecipitationType(args.rainProb, args.snowProb)
     IN  ret' = [pending |-> FALSE,
                 precipitationData |-> precipitationData,
                 display |-> getPrecipitationDisplay(precipitationData)]
  /\ UNCHANGED <<pc, isWeatherAppRunning, clock, utcOffset, weatherData,
                 pfiData, comparisons, err, comparisonHTML, errorMessage, args>>
  /\ UNCHANGED <<dom, globals, browser>>
  /\ UNCHANGED <<network, searchBox>>

\* generateComparisonData(difference, 'Today')
CallGenerateComparisonData ==
  /\ args.fn = "generateComparisonData"
  /\ ret = Pending
  /\ ret' = [pending |-> FALSE,
             data |-> generateComparisonData(args.difference, "Today")]
  /\ UNCHANGED <<pc, isWeatherAppRunning, clock, utcOffset, weatherData,
                 pfiData, comparisons, err, comparisonHTML, errorMessage, args>>
  /\ UNCHANGED <<dom, globals, browser>>
  /\ UNCHANGED <<network, searchBox>>

\* mockComparisons = generateMockComparisons(), in testing mode with the
\* configuration of the call.
CallGenerateMockComparisons ==
  /\ args.fn = "generateMockComparisons"
  /\ ret = Pending
  /\ ret' = [pending |-> FALSE,
             comparisons |-> generateMockComparisons(args.mockConfig, clock)]
  /\ UNCHANGED <<pc, isWeatherAppRunning, clock, utcOffset, weatherData,
                 pfiData, comparisons, err, comparisonHTML, errorMessage, args>>
  /\ UNCHANGED <<dom, globals, browser>>
  /\ UNCHANGED <<network, searchBox>>

\* comparisons = generateComparisons(pfiData, currentTemp, weatherData)
CallGenerateComparisons_shiftsInput ==
  /\ args.fn = "generateComparisons"
  /\ ret = Pending
  /\ ret' = [pending |-> FALSE,
             result |-> generateComparisons(args.pfiData, 0, args.weatherData,
                                            clock, utcOffset)]
  /\ args' = [args EXCEPT !.pfiData = Slice1(@)]
  /\ UNCHANGED <<pc, isWeatherAppRunning, clock, utcOffset, weatherData,
                 pfiData, comparisons, err, comparisonHTML, errorMessage>>
  /\ UNCHANGED <<dom, globals, browser>>
  /\ UNCHANGED <<network, searchBox>>

CallGenerateComparisons ==
  /\ args.fn = "generateComparisons"
  /\ ret = Pending
  /\ ret' = [pending |-> FALSE,
             result |-> generateComparisons(args.pfiData, 0, args.weatherData,
                                            clock, utcOffset)]
  /\ UNCHANGED <<pc, isWeatherAppRunning, clock, utcOffset, weatherData,
                 pfiData, comparisons, err, comparisonHTML, errorMessage, args>>
  /\ UNCHANGED <<dom, globals, browser>>
  /\ UNCHANGED <<network, searchBox>>

NextCore ==
  \/ CallDetectHazards
  \/ CallCalculatePFI
  \/ CallDeterminePrecipitationType
  \/ CallGenerateComparisonData
  \/ CallGenerateMockComparisons
  \/ CallGenerateComparisons

SpecCore == InitCore /\ [][NextCore]_vars

\* ------------------------------------------------------------------------
\* Properties of the derivation functions (checked under SpecCore)
\* ------------------------------------------------------------------------

Called(fn) == args.fn = fn /\ ~ret.pending

\* The rules of the hazard detector as an ordered list of (name, condition).
HazardRules(day) ==
  LET precipProb == day.precipitation_probability_max
  IN  << [name |-> "Fire Risk",
          matches |-> /\ day.apparent_temperature_max >= 320
                      /\ day.relative_humidity_2m_mean <= 30
                      /\ day.windspeed_10m_max >= 25],
         [name |-> "Extreme Heat",
          matches |-> day.apparent_temperature_max >= 380],
         [name |-> "Heavy Rain",
          matches |-> /\ day.precipitation_sum >= 30
                      /\ ~precipProb.isNull
                      /\ precipProb.value >= 70],
         [name |-> "Snow/Ice",
          matches |-> /\ day.precipitation_sum > 0
                      /\ day.apparent_temperature_min <= 0],
         [name |-> "Extreme Cold",
          matches |-> day.apparent_temperature_min <= 0],
         [name |-> "Strong Winds",
          matches |-> day.windspeed_10m_max >= 50] >>

\* The name of the first rule that matches, "null" when none does.
FirstMatch(rules) ==
  IF \E k \in 1..Len(rules) : rules[k].matches
  THEN LET first == CHOOSE k \in 1..Len(rules) :
                      /\ rules[k].matches
                      /\ \A j \in 1..(k - 1) : ~rules[j].matches
       IN  rules[first].name
  ELSE "null"

\* A day that satisfies both the Fire Risk and the Extreme Heat rule:
\* tempMax = 40, humidity = 20, wind = 30.
FireAndHeat(day) ==
  /\ day.apparent_temperature_max = 400
  /\ day.relative_humidity_2m_mean = 20
  /\ day.windspeed_10m_max = 30

\* C1: detectHazards returns, for every day of its input, exactly one value:
\* the name of the first rule that matches in the order Fire Risk, Extreme
\* Heat, Heavy Rain, Snow/Ice, Extreme Cold, Strong Winds, or null when no rule
\* matches; a day with tempMax = 40, humidity = 20 and wind = 30 is Fire Risk.
C1_HazardPriority ==
  Called("detectHazards") =>
    LET daily == args.weatherData.daily
    IN  /\ DOMAIN ret.hazards = 1..Len(daily)
        /\ \A i \in 1..Len(daily) :
             /\ ret.hazards[i] = FirstMatch(HazardRules(daily[i]))
             /\ FireAndHeat(daily[i]) => ret.hazards[i] = "Fire Risk"

C1_Witness ==
  /\ Called("detectHazards")
  /\ FireAndHeat(args.weatherData.daily[1])
  /\ ret.hazards[1] = "Fire Risk"

\* round(difference * 5) for a difference in hundredths, characterised as the
\* integer p with p - 1/2 <= difference / 20 < p + 1/2.
RoundedPercentage(difference) ==
  CHOOSE p \in (-(MaxDiff \div 20) - 1)..((MaxDiff \div 20) + 1) :
    20 * p - 10 <= difference /\ difference < 20 * p + 10

C5_SameOnlyBelow5 ==
  Called("generateComparisonData") =>
    LET p == RoundedPercentage(args.difference)
        label == displayText(ret.data.comparison)
    IN  /\ label = "About the same as yesterday" <=> MathAbs(p) < 5
        /\ (5 <= p /\ p < 15) => label = "A bit hotter than yesterday"
        /\ (-15 < p /\ p <= -5) => label = "A bit colder than yesterday"

\* C6 as stated: a rain/snow tie above 30 is classified as rain and gets the
\* rain label.
C6_TieIsRain ==
  (Called("determinePrecipitationType")
     /\ args.rainProb = args.snowProb /\ args.rainProb > 30) =>
    /\ ret.precipitationData.type = "rain"
    /\ ret.display.label \in {"Likely to rain", "Rain expected"}

\* C6 amended: when the rain and snow probabilities are equal and above 30,
\* determinePrecipitationType classifies the day as snow, never rain, with
\* the tied probability, and the label is the snow label ("Likely to snow"
\* up to 60, e.g. for 50, and "Snow expected" above 60).
C6_TieIsSnow ==
  (Called("determinePrecipitationType")
     /\ args.rainProb = args.snowProb /\ args.rainProb > 30) =>
    /\ ret.precipitationData = [type |-> "snow", probability |-> args.snowProb]
    /\ ret.display.show
    /\ ret.display.label =
         IF args.snowProb > 60 THEN "Snow expected" ELSE "Likely to snow"

C6_Witness ==
  /\ Called("determinePrecipitationType")
  /\ args.rainProb = 50
  /\ args.snowProb = 50
  /\ ret.display.label = "Likely to snow"

\* C7: for every pair of probabilities the display is hidden exactly when
\* both are <= 30; otherwise the winning side has the larger probability, its
\* label has the "expected" wording exactly when that probability is > 60 and
\* the "likely" wording exactly when it is in (30, 60]; no label is produced
\* for a winning probability of 30 or less.
C7_PrecipitationLabel ==
  Called("determinePrecipitationType") =>
    LET rain == args.rainProb
        snow == args.snowProb
        larger == IF rain > snow THEN rain ELSE snow
        won == ret.precipitationData
        label == ret.display.label
    IN  /\ ~ret.display.show <=> (rain <= 30 /\ snow <= 30)
        /\ ~ret.display.show => label = ""
        /\ ret.display.show =>
             /\ won.probability = larger
             /\ won.probability > 30
             /\ won.type = "rain" => won.probability = rain
             /\ won.type = "snow" => won.probability = snow
             /\ label = (IF won.type = "rain" THEN "Rain expected"
                         ELSE "Snow expected") <=> won.probability > 60
             /\ label = (IF won.type = "rain" THEN "Likely to rain"
                         ELSE "Likely to snow")
                  <=> (30 < won.probability /\ won.probability <= 60)

C7_Witness ==
  /\ Called("determinePrecipitationType")
  /\ args.rainProb = 60
  /\ args.snowProb = 31
  /\ ret.display = [icon |-> "rainy", label |-> "Likely to rain", show |-> TRUE]

\* C8: for every day calculatePFI returns
\* pfi = (apparentTempMin + apparentTempMax) / 2 + 0.02 * (50 - cloudCoverMean)
\* (in hundredths: 100 pfi = 5 (min10 + max10) + 100 - 2 cloud); min = 10,
\* max = 20, cloud = 50 gives 15; and days with equal fields have equal PFI
\* wherever they stand in the input.
C8_PFIFormula ==
  Called("calculatePFI") =>
    LET daily == args.weatherData.daily
        fields(i) == <<daily[i].apparent_temperature_min,
                       daily[i].apparent_temperature_max,
                       daily[i].cloudcover_mean>>
    IN  /\ DOMAIN ret.pfiData = 1..Len(daily)
        /\ \A i \in 1..Len(daily) :
             /\ ret.pfiData[i].pfi + 2 * fields(i)[3]
                  = 5 * (fields(i)[1] + fields(i)[2]) + 100
             /\ fields(i) = <<100, 200, 50>> => ret.pfiData[i].pfi = 1500
             /\ ret.pfiData[i].date = daily[i].time
        /\ \A i, j \in 1..Len(daily) :
             fields(i) = fields(j) => ret.pfiData[i].pfi = ret.pfiData[j].pfi

C8_Witness ==
  /\ Called("calculatePFI")
  /\ Len(args.weatherData.daily) = 2
  /\ args.weatherData.daily[1].cloudcover_mean = 100
  /\ args.weatherData.daily[2].apparent_temperature_min = 100
  /\ args.weatherData.daily[2].apparent_temperature_max = 200
  /\ args.weatherData.daily[2].cloudcover_mean = 50
  /\ ret.pfiData[2].pfi = 1500

\* C13: in mock mode the trend bucket is classified by the rule of the live
\* path: for every pair of today / yesterday PFI values of the mock
\* configuration, the bucket chosen by generateMockComparisons is the bucket
\* generateComparisonData returns for the same difference.
C13_MockBucketAsLive ==
  Called("generateMockComparisons") =>
    LET todayVsYesterdayDiff ==
          args.mockConfig[2].pfi - args.mockConfig[1].pfi
    IN  ret.comparisons.todayComparison.comparison
          = generateComparisonData(todayVsYesterdayDiff, "Today").comparison

\* C16: for every day calculatePFI assigns precipitationProbabilityMax (0
\* when absent) fully to rain when the average apparent temperature is > 0
\* and fully to snow otherwise: at most one of rain and snow is non-zero,
\* their sum is the probability, and they are never tied above 30.
C16_RainOrSnow ==
  Called("calculatePFI") =>
    \A i \in 1..Len(args.weatherData.daily) :
      LET day == args.weatherData.daily[i]
          given == day.precipitation_probability_max
          probability == IF given.isNull THEN 0 ELSE given.value
          warm == day.apparent_temperature_min + day.apparent_temperature_max > 0
          rain == ret.pfiData[i].precipitation.rain
          snow == ret.pfiData[i].precipitation.snow
      IN  /\ warm => (rain = probability /\ snow = 0)
          /\ ~warm => (snow = probability /\ rain = 0)
          /\ rain = 0 \/ snow = 0
          /\ rain + snow = probability
          /\ ~(rain = snow /\ rain > 30)

\* A day whose average apparent temperature is exactly 0 with probability
\* 50 (all of it snow), followed by a warm day without a probability.
C16_Witness ==
  /\ Called("calculatePFI")
  /\ Len(args.weatherData.daily) = 2
  /\ args.weatherData.daily[1].apparent_temperature_min = -50
  /\ args.weatherData.daily[1].apparent_temperature_max = 50
  /\ ret.pfiData[1].precipitation = [rain |-> 0, snow |-> 50]
  /\ args.weatherData.daily[2].apparent_temperature_min = 100
  /\ args.weatherData.daily[2].precipitation_probability_max = JsNull
  /\ ret.pfiData[2].precipitation = [rain |-> 0, snow |-> 0]

\* C17: generateComparisonData includes the absolute percentage in its
\* display strings (fullDisplay: arrow, space, percentage; htmlDisplay:
\* arrow, line break, percentage) exactly when |round(diff * 5)| >= 5;
\* otherwise each string is the arrow alone.
C17_PercentageShownFrom5 ==
  Called("generateComparisonData") =>
    LET p == RoundedPercentage(args.difference)
        full == ret.data.fullDisplay
        html == ret.data.htmlDisplay
    IN  /\ ~full.percent.isNull <=> MathAbs(p) >= 5
        /\ ~html.percent.isNull <=> MathAbs(p) >= 5
        /\ full.arrow = ret.data.arrow /\ html.arrow = ret.data.arrow
        /\ MathAbs(p) >= 5 =>
             /\ full.sep = " " /\ full.percent = Num(MathAbs(p))
             /\ html.sep = "<br>" /\ html.percent = Num(MathAbs(p))
        /\ MathAbs(p) < 5 => (full.sep = "" /\ html.sep = "")

\* A difference of -1.0 degree: the strings show the dash and "5%".
C17_Witness ==
  /\ Called("generateComparisonData")
  /\ args.difference = -100
  /\ ret.data.fullDisplay = [arrow |-> "-", sep |-> " ", percent |-> Num(5)]
  /\ ret.data.htmlDisplay = [arrow |-> "-", sep |-> "<br>", percent |-> Num(5)]

\* C18: the derivation core touches no shared mutable state.  A call of
\* calculatePFI, detectHazards, determinePrecipitationType,
\* generateComparisonData or generateComparisons leaves LOCATION,
\* currentLocationName, ipBasedLocationName, ipLocationDetected,
\* isWeatherAppRunning and isDismissing as they were, and its inputs (the
\* weatherData and pfiData arrays) as they were passed.
C18_CoreLeavesStateAlone ==
  [][(ret.pending /\ ~ret'.pending) =>
       /\ LOCATION' = LOCATION
       /\ currentLocationName' = currentLocationName
       /\ ipBasedLocationName' = ipBasedLocationName
       /\ ipLocationDetected' = ipLocationDetected
       /\ isWeatherAppRunning' = isWeatherAppRunning
       /\ isDismissing' = isDismissing
       /\ args' = args]_vars

\* generateComparisons has returned a result for an eight-day response during
\* a cycle for Oslo; its inputs still have their eight entries.
C18_Witness ==
  /\ Called("generateComparisons")
  /\ ~ret.result.threw
  /\ isWeatherAppRunning
  /\ LOCATION = Coordinates(Oslo.latitude, Oslo.longitude)
  /\ Len(args.pfiData) = RequiredDays + 1
  /\ Len(args.weatherData.daily) = RequiredDays + 1

\* ------------------------------------------------------------------------
\* Properties of the aggregator (checked under Spec)
\* ------------------------------------------------------------------------

\* generateComparisons has returned its result to initWeatherApp.
Generated == pc = "displayResults"

\* generateComparisons has thrown its error to initWeatherApp.
Rejected == pc = "catch" /\ err = "Not enough weather data"

\* What day k of the response (JS index k - 1) gives for a forward slot.
DayPFI(k) == Num(pfiEntry(weatherData.daily, k).pfi)

DayLabel(k) == apiDateDayName(weatherData.daily[k].time, utcOffset)

DayPrecipitation(k) ==
  LET precipitation == pfiEntry(weatherData.daily, k).precipitation
  IN  getPrecipitationDisplay(
        determinePrecipitationType(precipitation.rain, precipitation.snow))

DayHazard(k) == getHazardDisplay(detectedHazard(weatherData.daily[k]))

\* Forward slot `slot` (JS index slot - 1) holds the values of day k.
SlotIsDay(slot, k) ==
  /\ comparisons.weekPFI.pfiValues[slot] = DayPFI(k)
  /\ comparisons.weekPFI.dayNames[slot] = DayLabel(k)
  /\ comparisons.weekPrecipitation[slot] = DayPrecipitation(k)
  /\ comparisons.weekHazards[slot] = DayHazard(k)

\* Forward slot `slot` holds no value of any day of the response.
SlotIsEmpty(slot) ==
  /\ comparisons.weekPFI.pfiValues[slot] = JsNull
  /\ comparisons.weekPrecipitation[slot] = HiddenDisplay
  /\ comparisons.weekHazards[slot] = HiddenDisplay

C9_LabelsFromOwnDate ==
  Generated =>
    /\ DOMAIN comparisons.weekPFI.dayNames = 1..6
    /\ DOMAIN comparisons.weekPFI.pfiValues = 1..6
    /\ \A slot \in 1..6 :
         /\ slot + 2 <= Len(weatherData.daily)
         /\ comparisons.weekPFI.dayNames[slot]
              = WeekdayOf(weatherData.daily[slot + 2].time)

\* C10: the forward series starts at tomorrow.  For every accepted window
\* forward slot 0 is computed from window index 2 and, in general, forward
\* slot i from window index i + 2 (elements slot + 2 here), so none is
\* computed from yesterday or today; todayPFI is the PFI of index 1.
C10_StartsAtTomorrow ==
  Generated =>
    /\ Num(comparisons.todayPFI) = DayPFI(2)
    /\ SlotIsDay(1, 3)
    /\ \A slot \in 1..6 :
         IF slot + 2 <= Len(weatherData.daily)
         THEN SlotIsDay(slot, slot + 2)
         ELSE SlotIsEmpty(slot)

C10_Witness ==
  /\ Generated
  /\ weatherData.daily[1] = ProfileDay("hot", FirstDate)
  /\ weatherData.daily[2] = ProfileDay("mild", FirstDate + 1)
  /\ weatherData.daily[3] = ProfileDay("cold", FirstDate + 2)
  /\ comparisons.todayPFI = 1500
  /\ comparisons.weekPFI.pfiValues[1] = Num(-280)
  /\ comparisons.weekHazards[1].label = "Snow/Ice"
  /\ comparisons.weekPrecipitation[1].label = "Likely to snow"

\* The step in which initWeatherApp calls displayResults(comparisons), and
\* the step of its catch block.
DisplayStep == pc = "displayResults" /\ pc' = "idle"
CatchStep == pc = "catch" /\ pc' = "idle"

\* C14: every forward-series entry is fully resolved.  When displayResults
\* renders a result in which a forward day's PFI is missing (null), that
\* day's item shows the "no data" marker '--' and not a number of degrees.
C14_MissingShownAsNoData ==
  [][DisplayStep =>
       \A slot \in 1..6 :
         comparisons.weekPFI.pfiValues[slot].isNull =>
           dom'.dayItems[slot].dayPfi = NoDataMarker]_vars

Indicators(page) ==
  <<[hazard |-> page.hazardToday, precipitation |-> page.precipitationToday]>>
  \o [i \in 1..DayItems |->
        [hazard |-> page.dayItems[i].hazardWeek,
         precipitation |-> page.dayItems[i].precipitationWeek]]

\* The hazard and precipitation displays of a result, today first.
Displays(result) ==
  <<[hazard |-> result.todayHazard,
     precipitation |-> result.todayPrecipitation]>>
  \o [i \in 1..6 |->
        [hazard |-> result.weekHazards[i],
         precipitation |-> result.weekPrecipitation[i]]]

\* No slot of `page` shows its hazard and its precipitation indicator.
NeverBoth(page) ==
  \A k \in 1..(DayItems + 1) :
    ~(/\ Indicators(page)[k].hazard.display = "flex"
      /\ Indicators(page)[k].precipitation.display = "flex")

\* `page` shows `result`: a slot with a hazard shows the hazard alone, with
\* the hazard's icon; a slot with a precipitation display and no hazard
\* shows the precipitation alone; any other slot shows neither.
ShowsIndicatorsOf(page, result) ==
  \A k \in 1..(DayItems + 1) :
    LET shown == Indicators(page)[k]
        display == Displays(result)[k]
    IN  /\ display.hazard.show =>
             /\ shown.hazard.display = "flex"
             /\ shown.hazard.icon = display.hazard.icon
             /\ shown.precipitation.display = "none"
        /\ (~display.hazard.show /\ display.precipitation.show) =>
             /\ shown.precipitation.display = "flex"
             /\ shown.precipitation.icon = display.precipitation.icon
             /\ shown.hazard.display = "none"
        /\ (~display.hazard.show /\ ~display.precipitation.show) =>
             /\ shown.precipitation.display = "none"
             /\ shown.hazard.display = "none"

\* C11: hazard over precipitation.  After every step, whatever the page
\* showed before it, no slot (today or a forward day) shows both its hazard
\* and its precipitation indicator; and a step that runs displayResults, on
\* the live path or in mock mode, leaves every slot whose hazard display has
\* show = true with the hazard visible and the precipitation hidden, even
\* when the precipitation display has show = true as well.
C11_HazardOverPrecipitation ==
  [][/\ NeverBoth(dom')
     /\ (pc = "displayResults" /\ pc' = "idle") =>
          ShowsIndicatorsOf(dom', comparisons)
     /\ (TESTING_MODE /\ pc = "idle" /\ clock' = clock) =>
          ShowsIndicatorsOf(dom', generateMockComparisons(mockConfig, clock))
    ]_vars

\* A freezing day (Snow/Ice, and snow likely) is shown in the first day
\* item, where an earlier cycle had shown rain.
C11_Witness ==
  /\ pc = "idle"
  /\ dom.dayItems[1].hazardWeek.display = "flex"
  /\ dom.dayItems[1].hazardWeek.icon = "severe_cold"
  /\ dom.dayItems[1].precipitationWeek.display = "none"
  /\ dom.dayItems[1].precipitationWeek.icon = "rainy"

\* The page shows the sample data: the last cycle failed and fell back.
SampleShown == pc = "idle" /\ comparisonHTML = "Sample data for testing"

\* C12: after a cycle that fails and falls back to sample data the page
\* holds only fallback values: every field is the sample value or, where the
\* sample data has none (day labels, hazard and precipitation indicators),
\* what the page held before any live cycle; no field still shows a value
\* written by an earlier successful live cycle.
C12_FallbackOnly ==
  SampleShown => dom = showFallbackData(InitialPage)

\* ------------------------------------------------------------------------
\* Properties of location selection (checked under SpecSearch)
\* ------------------------------------------------------------------------

\* C19: at most one weather cycle is in progress at any time.  A call of
\* initWeatherApp made while isWeatherAppRunning is true (from the timeout of
\* a result click or from the current-location entry) returns without
\* resolving a location, fetching, computing or rendering anything: the
\* position of the running cycle, the request sent, the response, the PFI
\* data, the comparisons, the page and the flag stay as they were.
C19_OneCycleAtATime ==
  [][(isWeatherAppRunning /\ (TimeoutFires \/ SelectCurrentLocation)) =>
       /\ pc' = pc
       /\ request' = request
       /\ weatherData' = weatherData
       /\ pfiData' = pfiData
       /\ comparisons' = comparisons
       /\ dom' = dom
       /\ comparisonHTML' = comparisonHTML
       /\ errorMessage' = errorMessage
       /\ currentLocationName' = currentLocationName
       /\ isWeatherAppRunning']_vars

\* A result was clicked during the cycle for Oslo and its timeout has fired
\* while the cycle was still waiting for the response: the call returned and
\* the request for Oslo is still the one in flight.
C19_Witness ==
  /\ isWeatherAppRunning
  /\ pc = "fetchWeatherData"
  /\ timers = 0
  /\ request = Coordinates(Oslo.latitude, Oslo.longitude)
  /\ LOCATION = Coordinates(Lima.latitude, Lima.longitude)

\* Live weather is on the page, no cycle is running and no refresh is
\* pending.
LiveWeatherShown ==
  /\ pc = "idle"
  /\ timers = 0
  /\ comparisonHTML \notin {"", "Loading...", "Sample data for testing"}

\* C20: a selection made while a weather cycle is in flight is not lost.
\* Once no cycle is running and no refresh is pending, the weather on the
\* page was fetched for the LOCATION selected at that moment.
C20_SelectionNotLost == LiveWeatherShown => request = LOCATION

\* ------------------------------------------------------------------------
\* Properties of the end of a cycle (checked under SpecCycle)
\* ------------------------------------------------------------------------

\* The cycle ends with this step.
CycleEnds == pc # "idle" /\ pc' = "idle"

\* C21: isWeatherAppRunning is reset to false at the end of every cycle that
\* set it, on every exit path (successful render, failure with the fallback
\* shown, failure of the fallback itself), and a running cycle does end; so
\* between cycles the flag is false and a later call of initWeatherApp
\* (retryApp) starts a new cycle: in mock mode it renders the mock result, in
\* live mode it sets the flag and sends the request.
C21_FlagResetOnEveryExit ==
  /\ [][/\ CycleEnds => ~isWeatherAppRunning'
        /\ pc' = "idle" => ~isWeatherAppRunning'
        /\ (InitWeatherApp /\ ~TESTING_MODE) =>
             /\ isWeatherAppRunning'
             /\ pc' = "fetchWeatherData"
             /\ hasLocation(request')
        /\ (InitWeatherApp /\ TESTING_MODE) =>
             dom' = displayResults(generateMockComparisons(mockConfig, clock),
                                   dom)
       ]_vars
  /\ (isWeatherAppRunning ~> ~isWeatherAppRunning)

\* A cycle has ended with the failure of the fallback itself: the error alone
\* is shown and the flag is reset.
C21_Witness ==
  /\ pc = "idle"
  /\ ~isWeatherAppRunning
  /\ errorMessage = <<"Failed to load weather data: ", "Weather API error">>

\* ------------------------------------------------------------------------
\* Properties of the search box (checked under SpecDebounce)
\* ------------------------------------------------------------------------

\* The timer of the debounced function is pending.
LaterPending == \E k \in 1..Len(timeouts) : timeouts[k].callback = "later"

\* Every location request has settled and no search is waiting to be sent.
SearchSettled == locationRequests = {} /\ awaitingIP = 0 /\ ~LaterPending

\* The places in the rendered list, after the current-location entry.
RenderedPlaces == Slice1(searchResults.children)

\* C22: after any sequence of search inputs, once every location request has
\* settled, the rendered result list is the one for the most recently issued
\* query (its places, or none when its request failed or the list was
\* replaced by the current-location entry): a slower response to an older query never replaces the results of
\* a newer query.
C22_LatestQueryRendered ==
  SearchSettled =>
    RenderedPlaces \in {<<>>} \cup
      {[k \in 1..Len(Results(history.lastQuery)) |->
          Results(history.lastQuery)[k].name]}

\* C23: for the function returned by debounce(func, wait), func runs only
\* after wait ms have passed with no newer call, with the arguments of the
\* last call, and exactly once for any run of calls in which each call
\* arrives before the previous call's timer has fired: the invocations are as
\* many as the runs whose timer has fired.
C23_DebounceOncePerRun ==
  [][/\ history'.invoked # history.invoked =>
          /\ history.sinceCall >= DebounceWait
          /\ history'.invoked = Append(history.invoked, history.lastArg)
     /\ Len(history'.invoked)
          = history'.runs - (IF LaterPending' THEN 1 ELSE 0)
    ]_vars

\* Two calls have been made in one run, the second 100 ms after the first,
\* and func has run once, with the query of the second.
C23_Witness ==
  /\ history.events = 3
  /\ history.runs = 1
  /\ history.invoked = <<"li">>
  /\ ~LaterPending

\* ------------------------------------------------------------------------
\* Properties of the dismiss sequence (checked under SpecDismiss)
\* ------------------------------------------------------------------------

\* A scheduled step of a dismiss sequence has still to run.
DismissStepPending ==
  \E k \in 1..Len(timeouts) :
    timeouts[k].callback \in {"dismissClear", "dismissHide", "dismissResize"}

\* C24: isDismissing stays true for the whole of every dismiss sequence:
\* from a click on the dismiss button until that click's last scheduled step
\* (clearing the results, hiding the button, resizing the input) has run the
\* flag is not reset, also when the button is clicked again before an
\* earlier dismiss has finished.
C24_FlagCoversSequence == DismissStepPending => isDismissing

\* A step of one of the gated handlers: the listeners of the input and their
\* timeouts, the debounced search, renderResults after a location request,
\* showCurrentLocationResult after its await.
GatedStep ==
  \/ Focus
  \/ Input
  \/ Blur
  \/ Later
  \/ LocationsArrive
  \/ IPArrives
  \/ BlurTimeout
  \/ BlurClear

\* C25: while isDismissing is true the gated handlers change neither the
\* value of the search input (other than by the typing itself) nor its stored
\* previous value, the result list, the visibility of the weather data or of
\* the dismiss button, and start no location request.
C25_GatedWhileDismissing ==
  [][(isDismissing /\ GatedStep) =>
       /\ Input \/ searchInput'.value = searchInput.value
       /\ searchInput'.previousValue = searchInput.previousValue
       /\ searchResults' = searchResults
       /\ weatherHidden' = weatherHidden
       /\ dismissVisible' = dismissVisible
       /\ locationRequests' \subseteq locationRequests
       /\ awaitingIP' <= awaitingIP]_vars

\* ------------------------------------------------------------------------
\* Properties of getLocationFromIP (checked under SpecIP)
\* ------------------------------------------------------------------------

\* getLocationFromIP has returned to initWeatherApp.
IPReturned == pc = "fetchWeatherData" /\ ipResponses # <<>>

\* The services contacted whose answer carried coordinates, and those whose
\* answer carried two non-zero coordinates.
WithCoordinates ==
  {k \in 1..Len(ipResponses) : ipResponses[k].kind \in {"coordinates", "loc"}}
WithNonZeroCoordinates ==
  {k \in WithCoordinates :
     ipResponses[k].latitude # 0 /\ ipResponses[k].longitude # 0}

\* LOCATION is that of the last service contacted, which is the first of the
\* set; or, the set being empty, all services were contacted and the default
\* was taken.
LocationFromFirstOf(services) ==
  IF services # {}
  THEN /\ \A k \in services : k = Len(ipResponses)
       /\ LOCATION = Coordinates(ipResponses[Len(ipResponses)].latitude,
                                 ipResponses[Len(ipResponses)].longitude)
  ELSE /\ Len(ipResponses) = IpServices
       /\ LOCATION = DefaultLocation
       /\ currentLocationName = "Location unavailable"
       /\ ipBasedLocationName = "Location unavailable"
       /\ ipLocationDetected

\* C26 as stated: when getLocationFromIP returns, LOCATION holds the
\* coordinates of the first service, in list order, whose response carries
\* coordinates, later services not being contacted; or the default, with both
\* names 'Location unavailable' and ipLocationDetected, when no service
\* yields coordinates.
C26_FirstWithCoordinates ==
  IPReturned => (hasLocation(LOCATION) /\ LocationFromFirstOf(WithCoordinates))

\* C26, amended: getLocationFromIP never propagates an error (the cycle goes
\* on to fetchWeatherData, never to the catch block) and leaves LOCATION set:
\* to the coordinates of the first service, in list order, whose response
\* carries a non-zero latitude and a non-zero longitude, later services not
\* being contacted; or to the default, with both names 'Location unavailable'
\* and ipLocationDetected, when no service yields such coordinates.
C26_FirstWithNonZeroCoordinates ==
  /\ pc \in {"idle", "getLocationFromIP", "fetchWeatherData"}
  /\ pc = "getLocationFromIP" =>
       (WithNonZeroCoordinates = {} /\ Len(ipResponses) < IpServices)
  /\ IPReturned =>
       /\ hasLocation(LOCATION)
       /\ request = LOCATION
       /\ LocationFromFirstOf(WithNonZeroCoordinates)

\* The first two services failed, the third answered with coordinates and a
\* city, and the fourth was not contacted.
C26_Witness ==
  /\ IPReturned
  /\ Len(ipResponses) = 3
  /\ ipResponses[1].kind = "error"
  /\ ipResponses[2].kind = "ip"
  /\ ipResponses[3].kind = "loc"
  /\ LOCATION = Coordinates(IpPlace.latitude, IpPlace.longitude)
  /\ currentLocationName = IpPlace.name

\* ------------------------------------------------------------------------
\* Properties of the weather requests (checked under SpecFetch)
\* ------------------------------------------------------------------------

\* fetchWeatherData returns its data, or throws, in this step.
FetchReturns == pc = "fetchWeatherData" /\ pc' = "calculatePFI"
FetchThrows == pc = "fetchWeatherData" /\ pc' = "catch"

\* C27: fetchWeatherData issues the current and the daily request in
\* parallel (neither is sent without the other, and none has settled when
\* the second is sent) and returns combined data only if both succeed with
\* an ok status, its daily part being the daily response; if either request
\* fails, times out or is not ok it throws an error prefixed 'Weather API
\* error' and returns no data, never a result built from one response only.
C27_BothOrError ==
  [][/\ fetches'.current.state = "none" <=> fetches'.daily.state = "none"
     /\ (fetches.current.state = "none" /\ fetches'.current.state # "none") =>
          (fetches'.current = Sent /\ fetches'.daily = Sent)
     /\ FetchReturns =>
          /\ fetches'.current.state = "ok"
          /\ fetches'.daily.state = "ok"
          /\ weatherData' = [daily |-> fetches'.daily.data]
          /\ err' = ""
     /\ FetchThrows =>
          /\ \E endpoint \in Endpoints :
               fetches'[endpoint].state \in {"failed", "timedOut", "notOk"}
          /\ err' = "Weather API error"
          /\ weatherData' = NoWeatherData
     /\ (pc = "fetchWeatherData" /\ pc' = pc /\ fetches' # fetches) =>
          /\ \A endpoint \in Endpoints :
               fetches'[endpoint].state \in {"pending", "ok", "notOk"}
          /\ \E endpoint \in Endpoints : fetches'[endpoint].state = "pending"
    ]_vars

\* The current request has been answered with an ok status, the daily
\* request has timed out, and the cycle is in its catch block without data.
C27_Witness ==
  /\ pc = "catch"
  /\ err = "Weather API error"
  /\ fetches.current.state = "ok"
  /\ fetches.daily.state = "timedOut"
  /\ weatherData = NoWeatherData

\* C28: fetchWithTimeout aborts the request and fails with 'Request timed
\* out' when the request has not settled as the timeout elapses; when the
\* request settles first its response or its own error is passed through and
\* the timer is cancelled, so no abort fires after the call has returned:
\* a call that has returned stays as it is until the page is loaded again.
C28_TimeoutOrPassThrough ==
  [][\A endpoint \in Endpoints :
       LET call == fetches[endpoint]
           after == fetches'[endpoint]
       IN  /\ (~call.aborted /\ after.aborted) =>
                (call.state = "pending" /\ after.state = "timedOut")
           /\ (call.state = "pending" /\ after.state \in Outcomes) =>
                (~after.timer /\ ~after.aborted)
           /\ (call.state = "pending" /\ after.state # "pending") => ~after.timer
           /\ call.state \in Outcomes \cup {"timedOut"} =>
                (after = call \/ after = NotCalled)
    ]_vars

\* The daily request has been answered while the current request is still
\* pending: the timer of the daily call is cancelled, that of the current
\* call is not.
C28_Witness ==
  /\ fetches.daily.state = "ok"
  /\ ~fetches.daily.timer
  /\ ~fetches.daily.aborted
  /\ fetches.current.state = "pending"
  /\ fetches.current.timer

====
